---- MODULE Spec2Model ----
(***************************************************************************)
(* A model of the DotVeil command line client (klayserDev/dotveil):        *)
(* KeyManager (AES-256-GCM, scrypt, RSA-OAEP), the commands login, push,   *)
(* pull, member invite and keys rotate, and the requests they send through *)
(* ApiClient.                                                              *)
(*                                                                         *)
(* Representation.  A hex string is a sequence of hex digits 0..15, a byte *)
(* buffer a sequence of bytes 0..255.  A symmetric key, an IV and a salt   *)
(* are named by an integer (the value crypto.randomBytes returned).        *)
(* crypto.randomBytes never returns the same value twice: it is the        *)
(* counter rng.  AES-GCM is a stream cipher (the keystream is added mod    *)
(* 256 where AES-CTR xors it) with a 16-byte tag that is collision free:   *)
(* distinct (key, iv, ciphertext) have distinct tags.  scrypt is an        *)
(* iterated hash of the password and the salt.  An RSA-OAEP ciphertext     *)
(* names its recipient and opens only under the matching private key.      *)
(* SHA-256 is collision free.                                              *)
(***************************************************************************)
EXTENDS Integers, Sequences, FiniteSets, TLC

(***************************************************************************)
(* Bounds of the model.                                                    *)
(***************************************************************************)
\* crypto.randomBytes starts at any counter value in 1..MaxSeed
MaxSeed == 2
\* the longest master password tried at the prompt is MIN_PASSWORD + PwSlack
PwSlack == 1
\* runs of `dotveil login`
MaxLogins == 2
\* calls of the StorageManager in a row
MaxStoreOps == 3
\* runs of `dotveil push`
MaxPushes == 1
\* retained versions of an environment
MaxVersions == 3
\* bundles and versions corrupted at rest
MaxCorrupt == 1

(***************************************************************************)
(* Results of operations that may throw.                                   *)
(***************************************************************************)
Ok(v) == [ok |-> TRUE, value |-> v, error |-> ""]

ErrSeq(e) == [ok |-> FALSE, value |-> <<>>, error |-> e]

ErrInt(e) == [ok |-> FALSE, value |-> 0, error |-> e]

(***************************************************************************)
(* Buffers and hex strings.                                                *)
(***************************************************************************)
\* buf.toString('hex'), and cipher.update(..., 'hex') on the output side
HexEncode(bytes) ==
    [i \in 1..(2 * Len(bytes)) |->
        IF i % 2 = 1 THEN bytes[(i + 1) \div 2] \div 16
                     ELSE bytes[i \div 2] % 16]

\* Buffer.from(s, 'hex'): two digits a byte, an odd last digit is dropped
HexDecode(hex) ==
    [i \in 1..(Len(hex) \div 2) |-> 16 * hex[2 * i - 1] + hex[2 * i]]

\* s.slice(-n)
SliceLast(s, n) ==
    IF Len(s) <= n THEN s ELSE SubSeq(s, Len(s) - n + 1, Len(s))

\* s.slice(0, -n)
SliceFront(s, n) ==
    IF Len(s) <= n THEN <<>> ELSE SubSeq(s, 1, Len(s) - n)

\* crypto.createHash('sha256').update(s).digest('hex'): collision free
Sha256(s) ==
    <<Len(s) \div 16, Len(s) % 16>> \o [i \in 1..Len(s) |-> (s[i] + i) % 16]

(***************************************************************************)
(* KeyManager: constants, src/src/utils/KeyManager.ts:22-29.               *)
(***************************************************************************)
AUTH_TAG_LENGTH == 16

\* the part of the tag that holds the ciphertext's bytes
TagBody == AUTH_TAG_LENGTH - 6

\* AES-CTR keystream byte i under (key, iv)
GcmKeystream(key, iv, i) == (key * 31 + iv * 17 + i * 7 + 11) % 256

\* cipher.update(plain) + cipher.final()
CipherUpdate(key, iv, bytes) ==
    [i \in 1..Len(bytes) |-> (bytes[i] + GcmKeystream(key, iv, i)) % 256]

\* decipher.update(data)
DecipherUpdate(key, iv, bytes) ==
    [i \in 1..Len(bytes) |-> (bytes[i] + 256 - GcmKeystream(key, iv, i)) % 256]

\* cipher.getAuthTag(): AUTH_TAG_LENGTH bytes, one tag per (key, iv, body)
GcmAuthTag(key, iv, body) ==
    <<(key \div 16777216) % 256, (key \div 65536) % 256, (key \div 256) % 256,
      key % 256, iv % 256, Len(body)>>
    \o [i \in 1..TagBody |-> IF i <= Len(body) THEN body[i] ELSE 0]

\* createCipheriv('aes-256-gcm', key, iv); update; final; getAuthTag;
\* encrypted + authTag.toString('hex')
GcmSeal(plain, key, iv) ==
    LET body == CipherUpdate(key, iv, plain)
    IN  HexEncode(body) \o HexEncode(GcmAuthTag(key, iv, body))

\* split off the tag, createDecipheriv, setAuthTag, update, final (throws
\* when the tag does not verify)
GcmOpen(encrypted, key, iv) ==
    LET authTag == HexDecode(SliceLast(encrypted, AUTH_TAG_LENGTH * 2))
        encryptedData == SliceFront(encrypted, AUTH_TAG_LENGTH * 2)
        body == HexDecode(encryptedData)
    IN  IF authTag = GcmAuthTag(key, iv, body)
        THEN Ok(DecipherUpdate(key, iv, body))
        ELSE ErrSeq("Unsupported state or unable to authenticate data")

RECURSIVE ScryptMix(_, _)
\* the password's characters folded into the running hash h
ScryptMix(h, pw) ==
    IF pw = <<>> THEN h
    ELSE ScryptMix((h * 31 + Head(pw)) % 65521, Tail(pw))

\* a letter, lower-cased
LowerCase(c) == IF c >= 65 /\ c <= 90 THEN c + 32 ELSE c

\* a key derivation that ignores the letters' case
deriveKeyIgnoringCase(masterPassword, salt) ==
    ScryptMix(salt + 1, [i \in 1..Len(masterPassword) |-> LowerCase(masterPassword[i])])

\* deriveKey(masterPassword, salt): scrypt, deterministic in both inputs
deriveKey(masterPassword, salt) == ScryptMix(salt + 1, masterPassword)

\* encryptPrivateKey(privateKey, masterPassword), the random salt and IV
\* being the next two values of crypto.randomBytes
encryptPrivateKey(privateKey, masterPassword, salt, iv) ==
    [encrypted |-> GcmSeal(privateKey, deriveKey(masterPassword, salt), iv),
     salt |-> salt, iv |-> iv]

\* decryptPrivateKey(encrypted, masterPassword, salt, iv): every failure is
\* rethrown as one error
decryptPrivateKey(encrypted, masterPassword, salt, iv) ==
    LET r == GcmOpen(encrypted, deriveKey(masterPassword, salt), iv)
    IN  IF r.ok THEN r
        ELSE ErrSeq("Failed to decrypt private key. Incorrect master password or corrupted data.")

\* encryptEnvFile(envContent, projectKey), iv the next randomBytes value
encryptEnvFile(envContent, projectKey, iv) ==
    [encrypted |-> GcmSeal(envContent, projectKey, iv), iv |-> iv]

\* a decryption that takes the tag to be AUTH_TAG_LENGTH hex characters
decryptEnvFileShortTag(encrypted, projectKey, iv) ==
    LET authTag == HexDecode(SliceLast(encrypted, AUTH_TAG_LENGTH))
        body == HexDecode(SliceFront(encrypted, AUTH_TAG_LENGTH))
    IN  IF authTag = GcmAuthTag(projectKey, iv, body)
        THEN Ok(DecipherUpdate(projectKey, iv, body))
        ELSE ErrSeq("Unsupported state or unable to authenticate data")

\* decryptEnvFile(encrypted, projectKey, iv)
decryptEnvFile(encrypted, projectKey, iv) == GcmOpen(encrypted, projectKey, iv)

\* generateKeyPair(): the pair made from the random value r
generateKeyPair(r) == [publicKey |-> r, privateKey |-> <<80, 75, r>>]

\* the public key a private key PEM belongs to (0: not a private key)
RsaPublicOf(privateKey) ==
    IF Len(privateKey) = 3 /\ privateKey[1] = 80 /\ privateKey[2] = 75
    THEN privateKey[3] ELSE 0

\* an absent publicKey / encryptedProjectKey (null, undefined)
NoPublicKey == 0

NoEnvelope == [recipient |-> 0, payload |-> 0]

\* encryptMessage(message, publicKey): RSA-OAEP under publicKey
encryptMessage(message, publicKey) ==
    [recipient |-> publicKey, payload |-> message]

\* decryptMessage(encrypted, privateKey): throws unless privateKey is the
\* recipient's
decryptMessage(encrypted, privateKey) ==
    IF encrypted.recipient # 0 /\ encrypted.recipient = RsaPublicOf(privateKey)
    THEN Ok(encrypted.payload)
    ELSE ErrInt("error:02000079:rsa routines::oaep decoding error")

\* generateProjectKey(): the key named by the random value r
generateProjectKey(r) == r

(***************************************************************************)
(* The state.                                                              *)
(***************************************************************************)
VARIABLES
    rng,            \* the next value crypto.randomBytes / generateKeyPair returns
    requests,       \* the ApiClient calls of the running command, in order
    store,          \* StorageManager: [accessToken, privateKey] of this device
    srvVault,       \* server: the user's vault (publicKey, encryptedPrivateKey, salt, iv)
    loginPc,        \* login: where the command stands
    attempts,       \* login: the poll loop's counter
    user,           \* login: tokenResponse.user
    masterPw,       \* the master password the vault was created with
    vaultKey,       \* the private key generated at first-time setup
    logins,         \* login runs started so far
    kdfLen,         \* login: length of the passphrase the running command last
                    \* gave deriveKey, 0 before it gave any
    cred,           \* StorageManager in detail: the keychain, the fallback file,
                    \* the last call and what was stored since the last clear
    peer,           \* push of another member from another machine: its position
                    \* and local variables
    expand,         \* expandSecrets: the secrets map given and the map returned
    srv,            \* server: the project (envelopes, bundles, versions, members)
    dotenv,         \* the local .env file
    config,         \* dotveil.json
    push,           \* push: the command's position and local variables
    pull,           \* pull: the command's options, download and outcome
    rot,            \* keys rotate: the command's position and local variables
    inv             \* member invite: the command's position and outcome

loginVars == <<store, srvVault, loginPc, attempts, user, masterPw, vaultKey, logins,
               kdfLen, cred, peer, expand>>

projVars == <<srv, dotenv, config, push, pull, rot, inv>>

vars == <<rng, requests, loginVars, projVars>>

(***************************************************************************)
(* StorageManager, src/src/utils/StorageManager.ts:50-157.  0 is "no       *)
(* token" and <<>> "no private key" (getPassword answers null).            *)
(***************************************************************************)
EmptyStore == [accessToken |-> 0, privateKey |-> <<>>]

storeAccessToken(st, token) == [st EXCEPT !.accessToken = token]

storePrivateKey(st, privateKey) == [st EXCEPT !.privateKey = privateKey]

\* a clearAll that deletes the private key and keeps the access token
clearAllButToken(st) == [st EXCEPT !.privateKey = <<>>]

clearAll(st) == EmptyStore

isLoggedIn(st) == st.accessToken # 0

(***************************************************************************)
(* login, src/src/commands/login.ts.                                       *)
(***************************************************************************)
\* const maxAttempts = 60
maxAttempts == 60

\* the shortest master password the "Create Master Password" prompt accepts
MIN_PASSWORD == 12

\* what the user may type at a password prompt: "Chh..h" / "chh..h" /
\* "Chh..i" / "chh..i", of MIN_PASSWORD - 1 to MIN_PASSWORD + PwSlack letters
Passphrases ==
    { <<first>> \o [i \in 1..(n - 2) |-> 104] \o <<last>> :
        first \in {67, 99}, last \in {104, 105},
        n \in (MIN_PASSWORD - 1)..(MIN_PASSWORD + PwSlack) }

\* validate: (input) => input.length < 12 ? 'Master password must be ...' : true
validate(input) == Len(input) >= MIN_PASSWORD

NoVault == [publicKey |-> NoPublicKey, encryptedPrivateKey |-> <<>>, salt |-> 0, iv |-> 0]

\* the access token the server issues
AccessToken == 1

Call(op, body) == [op |-> op, body |-> body]

\* loginCommand up to "Initiating GitHub OAuth": an existing session is kept
\* unless the user confirms, and then cleared
LoginStart ==
    /\ loginPc = "start"
    /\ IF isLoggedIn(store)
       THEN \E confirm \in BOOLEAN :
              IF confirm
              THEN /\ store' = clearAll(store)
                   /\ loginPc' = "initiate"
              ELSE /\ loginPc' = "done"
                   /\ UNCHANGED store
       ELSE /\ loginPc' = "initiate"
            /\ UNCHANGED store
    /\ UNCHANGED <<rng, requests, srvVault, attempts, user, masterPw, vaultKey, logins, kdfLen, cred, peer, expand, projVars>>

\* apiClient.initiateAuth()
LoginInitiate ==
    /\ loginPc = "initiate"
    /\ requests' = Append(requests, Call("initiateAuth", [none |-> 0]))
    /\ \E answered \in BOOLEAN :
          loginPc' = IF answered THEN "poll" ELSE "done"
    /\ attempts' = 0
    /\ UNCHANGED <<rng, store, srvVault, user, masterPw, vaultKey, logins, kdfLen, cred, peer, expand, projVars>>

\* a loop that polls for ever
LoopGoesOnForEver(n) == TRUE

\* line 74: while (attempts < maxAttempts)
LoopGoesOn(n) == n < maxAttempts

\* one turn of while (attempts < maxAttempts): pollAuth answers the token,
\* authorization_pending, or another error
LoginPoll ==
    /\ loginPc = "poll"
    /\ LoopGoesOn(attempts)
    /\ requests' = Append(requests, Call("pollAuth", [deviceCode |-> 1]))
    /\ \E answer \in {"token", "authorization_pending", "access_denied"} :
          CASE answer = "token" ->
                 \* storeAccessToken, setAccessToken, hasVault
                 /\ store' = storeAccessToken(store, AccessToken)
                 /\ user' = srvVault
                 /\ loginPc' = IF srvVault.encryptedPrivateKey # <<>>
                               THEN "existingPrompt" ELSE "newPrompt"
                 /\ UNCHANGED attempts
            [] answer = "authorization_pending" ->
                 /\ attempts' = attempts + 1
                 /\ UNCHANGED <<store, user, loginPc>>
            [] OTHER ->
                 /\ loginPc' = "done"
                 /\ UNCHANGED <<store, user, attempts>>
    /\ UNCHANGED <<rng, srvVault, masterPw, vaultKey, logins, kdfLen, cred, peer, expand, projVars>>

\* the loop ran out: if (!tokenResponse) "Authentication timed out"
LoginTimeout ==
    /\ loginPc = "poll"
    /\ ~LoopGoesOn(attempts)
    /\ loginPc' = "done"
    /\ UNCHANGED <<rng, requests, store, srvVault, attempts, user, masterPw, vaultKey, logins, kdfLen, cred, peer, expand, projVars>>

\* handleNewUser: the two password prompts; the first accepts only a
\* password that passes validate
NewUserPrompt ==
    /\ loginPc = "newPrompt"
    /\ \E password \in {p \in Passphrases : validate(p)}, confirm \in Passphrases :
          IF password = confirm
          THEN /\ masterPw' = password
               /\ loginPc' = "newSetup"
          ELSE /\ loginPc' = "newRetry"
               /\ UNCHANGED masterPw
    /\ UNCHANGED <<rng, requests, store, srvVault, attempts, user, vaultKey, logins, kdfLen, cred, peer, expand, projVars>>

\* "Passwords do not match": try again, or clearAll and process.exit(0)
NewUserRetry ==
    /\ loginPc = "newRetry"
    /\ \E retry \in BOOLEAN :
          IF retry
          THEN /\ loginPc' = "newPrompt"
               /\ UNCHANGED store
          ELSE /\ store' = clearAll(store)
               /\ loginPc' = "exit"
    /\ UNCHANGED <<rng, requests, srvVault, attempts, user, masterPw, vaultKey, logins, kdfLen, cred, peer, expand, projVars>>

\* an upload of the private key as generated
VaultUploadUnprotected(keyPair, protected) ==
    [publicKey |-> keyPair.publicKey, encryptedPrivateKey |-> keyPair.privateKey,
     salt |-> protected.salt, iv |-> protected.iv]

\* the body apiClient.updateVault is given
VaultUpload(keyPair, protected) ==
    [publicKey |-> keyPair.publicKey, encryptedPrivateKey |-> protected.encrypted,
     salt |-> protected.salt, iv |-> protected.iv]

\* handleNewUser from "Generating encryption keypair" on: generateKeyPair,
\* encryptPrivateKey, updateVault, and storePrivateKey unless the upload failed
NewUserSetup ==
    /\ loginPc = "newSetup"
    /\ LET keyPair == generateKeyPair(rng)
           protected == encryptPrivateKey(keyPair.privateKey, masterPw, rng + 1, rng + 2)
           data == VaultUpload(keyPair, protected)
       IN  /\ rng' = rng + 3
           /\ requests' = Append(requests, Call("updateVault", data))
           /\ vaultKey' = keyPair.privateKey
           /\ kdfLen' = Len(masterPw)
           /\ \E uploaded \in BOOLEAN :
                 IF uploaded
                 THEN /\ srvVault' = data
                      /\ store' = storePrivateKey(store, keyPair.privateKey)
                 ELSE UNCHANGED <<srvVault, store>>
    /\ loginPc' = "done"
    /\ UNCHANGED <<attempts, user, masterPw, logins, cred, peer, expand, projVars>>

\* handleExistingUser: the prompt and decryptPrivateKey; the key is stored
\* when it decrypts
ExistingUserPrompt ==
    /\ loginPc = "existingPrompt"
    /\ \E masterPassword \in Passphrases :
          LET r == decryptPrivateKey(user.encryptedPrivateKey, masterPassword,
                                     user.salt, user.iv)
          IN  /\ kdfLen' = Len(masterPassword)
              /\ IF r.ok
                 THEN /\ store' = storePrivateKey(store, r.value)
                      /\ loginPc' = "done"
                 ELSE /\ loginPc' = "existingRetry"
                      /\ UNCHANGED store
    /\ UNCHANGED <<rng, requests, srvVault, attempts, user, masterPw, vaultKey, logins, cred, peer, expand, projVars>>

\* "Incorrect master password": try again, or clearAll and process.exit(0)
ExistingUserRetry ==
    /\ loginPc = "existingRetry"
    /\ \E retry \in BOOLEAN :
          IF retry
          THEN /\ loginPc' = "existingPrompt"
               /\ UNCHANGED store
          ELSE /\ store' = clearAll(store)
               /\ loginPc' = "exit"
    /\ UNCHANGED <<rng, requests, srvVault, attempts, user, masterPw, vaultKey, logins, kdfLen, cred, peer, expand, projVars>>

\* the user runs `dotveil login` again, on this device or on a new one
\* (whose credential store is empty)
LoginAgain ==
    /\ loginPc \in {"done", "exit"}
    /\ logins < MaxLogins
    /\ logins' = logins + 1
    /\ loginPc' = "start"
    /\ requests' = <<>>
    /\ attempts' = 0
    /\ kdfLen' = 0
    /\ \E newDevice \in BOOLEAN :
          store' = IF newDevice THEN EmptyStore ELSE store
    /\ UNCHANGED <<rng, srvVault, user, masterPw, vaultKey, cred, peer, expand, projVars>>


(***************************************************************************)
(* .env contents and dotenv.parse.                                         *)
(***************************************************************************)
\* the .env contents of the model: "", "A=1", "A=1\n", "A=2", "A=1\nB=2"
EnvContents ==
    { <<>>, <<65, 61, 49>>, <<65, 61, 49, 10>>, <<65, 61, 50>>,
      <<65, 61, 49, 10, 66, 61, 50>> }

\* the first index of c in s, 0 when there is none
IndexOf(s, c) ==
    IF \E i \in 1..Len(s) : s[i] = c
    THEN CHOOSE i \in 1..Len(s) : s[i] = c /\ \A j \in 1..(i - 1) : s[j] # c
    ELSE 0

RECURSIVE SplitLines(_)
\* the lines of a file
SplitLines(s) ==
    IF s = <<>> THEN <<>>
    ELSE LET i == IndexOf(s, 10)
         IN  IF i = 0 THEN <<s>>
             ELSE <<SubSeq(s, 1, i - 1)>> \o SplitLines(SubSeq(s, i + 1, Len(s)))

\* dotenv.parse(content): NAME=value lines, a later line overriding an
\* earlier one; other lines are ignored
DotenvParse(content) ==
    LET lines == SplitLines(content)
        valid == {i \in 1..Len(lines) : IndexOf(lines[i], 61) > 1}
        nameOf(i) == SubSeq(lines[i], 1, IndexOf(lines[i], 61) - 1)
        valueOf(i) == SubSeq(lines[i], IndexOf(lines[i], 61) + 1, Len(lines[i]))
        lastOf(n) == CHOOSE i \in valid :
                        nameOf(i) = n /\ \A j \in valid : nameOf(j) = n => j <= i
    IN  [n \in {nameOf(i) : i \in valid} |-> valueOf(lastOf(n))]

\* the diff of push and pull: the names added, removed and modified
DiffEnv(localEnv, remoteEnv) ==
    [added |-> DOMAIN localEnv \ DOMAIN remoteEnv,
     removed |-> DOMAIN remoteEnv \ DOMAIN localEnv,
     modified |-> {k \in DOMAIN localEnv \cap DOMAIN remoteEnv :
                        localEnv[k] # remoteEnv[k]}]

\* changes.length
ChangeCount(d) == Cardinality(d.added) + Cardinality(d.removed) + Cardinality(d.modified)

(***************************************************************************)
(* The server behind ApiClient (src/src/utils/StorageManager.ts:160-446):  *)
(* per project the members' envelopes, each environment's current bundle   *)
(* and its append-only version list, the member roster and the pending     *)
(* invitations.                                                            *)
(***************************************************************************)
EnvNames == {"dev", "prod"}

Environments == <<[id |-> 1, name |-> "dev"], [id |-> 2, name |-> "prod"]>>

\* the user running the commands, the project's members, a user outside it
Me == 1

Members == <<1, 2, 3>>

Outsider == 4

UserIds == {1, 2, 3, 4}

\* the keypair user u generated at first login
UserKeyPair(u) == generateKeyPair(100 + u)

NoBundle == [encryptedData |-> <<>>, iv |-> 0, sha256 |-> <<>>]

NoChanges == [note |-> "", added |-> {}, removed |-> {}, modified |-> {}]

\* an HTTP answer
Response(status, data) == [status |-> status, data |-> data]

\* GET /projects/:id/secrets/:environment as user u
downloadSecrets(s, u, environment) ==
    IF s.secrets[environment] = NoBundle
    THEN Response(404, [encryptedData |-> <<>>, iv |-> 0,
                        encryptedProjectKey |-> NoEnvelope, sha256 |-> <<>>])
    ELSE Response(200, [encryptedData |-> s.secrets[environment].encryptedData,
                        iv |-> s.secrets[environment].iv,
                        encryptedProjectKey |-> s.keys[u],
                        sha256 |-> s.secrets[environment].sha256])

\* GET /projects/:id/key as user u
getProjectKey(s, u) ==
    IF s.keys[u] = NoEnvelope
    THEN Response(404, [encryptedProjectKey |-> NoEnvelope])
    ELSE Response(200, [encryptedProjectKey |-> s.keys[u]])

\* GET /users/me, GET /users/lookup?email=
getMe(s, u) == [id |-> u, email |-> u, publicKey |-> s.users[u]]

lookupUser(s, email) == [id |-> email, email |-> email, publicKey |-> s.users[email]]

\* GET /projects/:id/envs
listEnvironments(s) == s.envs

\* GET /projects/:id/members
listMembers(s) ==
    [i \in 1..Len(s.members) |->
        [userId |-> s.members[i], email |-> s.members[i],
         publicKey |-> s.users[s.members[i]]]]

\* GET /projects/:id/secrets/:environment/versions
getSecretVersions(s, environment) == s.versions[environment]

\* all versions the server holds
AllVersions(s) ==
    UNION {{s.versions[e][i] : i \in 1..Len(s.versions[e])} : e \in EnvNames}

\* the id the server gives the next version
NextVersionId(s) == 1 + Cardinality(AllVersions(s))

\* POST /projects/:id/secrets: the bundle becomes the environment's current
\* one and the newest version; the envelope becomes the uploader's
ApplyUpload(s, u, body) ==
    LET e == body.environment
        bundle == [encryptedData |-> body.encryptedData, iv |-> body.iv,
                   sha256 |-> body.sha256]
        version == [id |-> NextVersionId(s), version |-> Len(s.versions[e]) + 1,
                    encryptedData |-> body.encryptedData, iv |-> body.iv,
                    sha256 |-> body.sha256]
    IN  [s EXCEPT !.secrets[e] = bundle,
                  !.versions[e] = Append(@, version),
                  !.keys[u] = body.encryptedProjectKey]

\* the entry of the sequence q whose field is v (q has one)
EntryFor(q, field, v) == q[CHOOSE i \in 1..Len(q) : q[i][field] = v]

HasEntry(q, field, v) == \E i \in 1..Len(q) : q[i][field] = v

\* POST /projects/:id/rotate-key: the envelopes are replaced by the new
\* ones, and every bundle and version named in the payload by its
\* re-encryption
ApplyRotate(s, body) ==
    LET newBundle(e) ==
            LET id == (CHOOSE x \in {Environments[i] : i \in 1..Len(Environments)} :
                          x.name = e).id
            IN  IF HasEntry(body.reEncryptedSecrets, "environmentId", id)
                THEN LET n == EntryFor(body.reEncryptedSecrets, "environmentId", id)
                     IN  [encryptedData |-> n.encryptedData, iv |-> n.iv,
                          sha256 |-> n.sha256]
                ELSE s.secrets[e]
        newVersion(v) ==
            IF HasEntry(body.reEncryptedVersions, "id", v.id)
            THEN LET n == EntryFor(body.reEncryptedVersions, "id", v.id)
                 IN  [v EXCEPT !.encryptedData = n.encryptedData, !.iv = n.iv,
                               !.sha256 = n.sha256]
            ELSE v
    IN  [s EXCEPT !.keys = [u \in UserIds |->
                              IF u \in DOMAIN body.newEncryptedProjectKeys
                              THEN body.newEncryptedProjectKeys[u] ELSE NoEnvelope],
                  !.secrets = [e \in EnvNames |-> newBundle(e)],
                  !.versions = [e \in EnvNames |->
                                  [i \in 1..Len(s.versions[e]) |-> newVersion(s.versions[e][i])]]]

\* POST /projects/:id/invitations
ApplyInvite(s, body) == [s EXCEPT !.invitations = @ \cup {body}]

\* what a call of user u that the server accepted does to the project
ServerApply(s, u, call) ==
    CASE call.op = "uploadSecrets" -> ApplyUpload(s, u, call.body)
      [] call.op = "rotateKey" -> ApplyRotate(s, call.body)
      [] call.op = "inviteMember" -> ApplyInvite(s, call.body)
      [] OTHER -> s

\* the calls that modify the server's state
ModifyingOps == {"uploadSecrets", "rotateKey", "inviteMember", "updateVault"}

(***************************************************************************)
(* The commands run one at a time from one terminal.                       *)
(***************************************************************************)
IdlePush == [pc |-> "idle", environment |-> "dev", envContent |-> <<>>,
             changeDetails |-> NoChanges, projectKey |-> 0,
             encryptedProjectKey |-> NoEnvelope, outcome |-> "", error |-> "",
             diffError |-> "", keyStatus |-> 0, keyless |-> FALSE, runs |-> 0]

IdleRot == [pc |-> "idle", at |-> "", envIndex |-> 0, before |-> <<>>,
            currentProjectKey |-> 0, newProjectKey |-> 0, environments |-> <<>>,
            reEncryptedSecrets |-> <<>>, reEncryptedVersions |-> <<>>,
            newEncryptedProjectKeys |-> <<>>, skippedVersions |-> <<>>,
            skippedMembers |-> <<>>, outcome |-> "", error |-> ""]

IdlePeer == [pc |-> "idle", environment |-> "dev", envContent |-> <<>>,
             projectKey |-> 0, encryptedProjectKey |-> NoEnvelope, keyStatus |-> 0,
             keyless |-> FALSE, outcome |-> "", error |-> ""]

IdleExpand == [pc |-> "idle", secrets |-> <<>>, expanded |-> <<>>]

IdleInv == [pc |-> "idle", email |-> 0, outcome |-> "", error |-> ""]

IdlePull == [pc |-> "idle", environment |-> "dev", serviceToken |-> FALSE,
             received |-> NoBundle, tampered |-> FALSE, decrypted |-> FALSE,
             remoteEnvContent |-> <<>>,
             outcome |-> "", error |-> "", wroteEnv |-> FALSE, wroteState |-> FALSE,
             force |-> FALSE, confirmed |-> FALSE,
             localEnv |-> [exists |-> FALSE, content |-> <<>>]]

NoCommandRunning ==
    /\ push.pc \in {"idle", "done"}
    /\ pull.pc \in {"idle", "done"}
    /\ rot.pc \in {"idle", "done"}
    /\ inv.pc \in {"idle", "done"}

\* the private key in the credential store, if (privateKey)
HasPrivateKey(st) == st.privateKey # <<>>

(***************************************************************************)
(* push, src/src/commands/push.ts.                                         *)
(***************************************************************************)
\* lines 59-74: the remote content for the diff; whatever fails on the way
\* leaves it empty
RemoteForDiff(answered, resp, st) ==
    IF answered /\ resp.status = 200 /\ HasPrivateKey(st)
    THEN LET projectKey == decryptMessage(resp.data.encryptedProjectKey, st.privateKey)
         IN  IF projectKey.ok
             THEN LET remote == decryptEnvFile(resp.data.encryptedData,
                                               projectKey.value, resp.data.iv)
                  IN  IF remote.ok THEN remote.value ELSE <<>>
             ELSE <<>>
    ELSE <<>>

\* lines 60-74: what the try block of the diff threw into its catch block,
\* "" when it threw nothing
DiffError(answered, resp, st) ==
    IF ~answered THEN "request"
    ELSE IF resp.status # 200 THEN "not found"
    ELSE IF ~HasPrivateKey(st) THEN ""
    ELSE LET projectKey == decryptMessage(resp.data.encryptedProjectKey, st.privateKey)
         IN  IF ~projectKey.ok THEN "unwrap"
             ELSE IF ~decryptEnvFile(resp.data.encryptedData, projectKey.value,
                                     resp.data.iv).ok
             THEN "authentication"
             ELSE ""

\* lines 83-103: changeDetails = { added, removed, modified }
ChangeDetails(envContent, remoteEnvContent) ==
    LET d == DiffEnv(DotenvParse(envContent), DotenvParse(remoteEnvContent))
    IN  [note |-> "", added |-> d.added, removed |-> d.removed,
         modified |-> d.modified]

\* line 132: changeDetails = "skipped difference check"
SkippedCheck ==
    [note |-> "skipped difference check", added |-> {}, removed |-> {},
     modified |-> {}]

\* lines 177-183: the body of uploadSecrets
UploadBody(environment, encryptedData, iv, encryptedProjectKey, sha256, changes) ==
    [environment |-> environment, encryptedData |-> encryptedData, iv |-> iv,
     encryptedProjectKey |-> encryptedProjectKey, sha256 |-> sha256,
     changes |-> changes]

PushEnd(outcome, error) ==
    [push EXCEPT !.pc = "done", !.outcome = outcome, !.error = error]

\* lines 14-134: the checks, the diff against the remote content and the
\* confirmation
PushBegin ==
    /\ push.pc \in {"idle", "done"}
    /\ push.runs < MaxPushes
    /\ \E environment \in EnvNames, withoutCheck \in BOOLEAN :
       \E yes \in (IF withoutCheck THEN {FALSE} ELSE BOOLEAN),
          answered \in (IF withoutCheck THEN {TRUE} ELSE BOOLEAN) :
       \E confirm \in (IF withoutCheck \/ yes THEN {TRUE} ELSE BOOLEAN) :
          LET p == [IdlePush EXCEPT !.runs = push.runs + 1,
                                    !.environment = environment,
                                    !.envContent = dotenv.content]
              resp == downloadSecrets(srv, Me, environment)
              changes == ChangeDetails(dotenv.content, RemoteForDiff(answered, resp, store))
              d == [p EXCEPT !.diffError = DiffError(answered, resp, store)]
          IN  IF ~isLoggedIn(store)
              THEN /\ push' = [p EXCEPT !.pc = "done", !.outcome = "not logged in"]
                   /\ requests' = <<>>
              ELSE IF ~config.exists
              THEN /\ push' = [p EXCEPT !.pc = "done", !.outcome = "dotveil.json not found"]
                   /\ requests' = <<>>
              ELSE IF ~dotenv.exists
              THEN /\ push' = [p EXCEPT !.pc = "done", !.outcome = ".env file not found"]
                   /\ requests' = <<>>
              ELSE IF withoutCheck
              THEN /\ push' = [p EXCEPT !.pc = "key", !.changeDetails = SkippedCheck]
                   /\ requests' = <<>>
              ELSE /\ requests' = <<Call("downloadSecrets",
                                         [environment |-> environment, purpose |-> "diff"])>>
                   /\ push' = IF ChangeCount(changes) = 0
                              THEN [d EXCEPT !.pc = "done", !.outcome = "no changes"]
                              ELSE IF ~yes /\ ~confirm
                              THEN [d EXCEPT !.pc = "done", !.outcome = "aborted"]
                              ELSE [d EXCEPT !.pc = "key", !.changeDetails = changes]
    /\ UNCHANGED <<rng, loginVars, srv, dotenv, config, pull, rot, inv>>

\* `dotveil push` typed at the terminal where no other command is running
PushStart ==
    /\ NoCommandRunning
    /\ pull.pc = "idle"
    /\ PushBegin

\* the server holds no envelope for the project: no key was established
Keyless(s) == \A u \in UserIds : s.keys[u] = NoEnvelope

\* a catch block that takes every error for "no key exists"
NoKeyExistsAlways(status) == TRUE

\* line 154: error.response?.status === 404, no key exists
NoKeyExists(status) == status = 404

\* lines 143-150: how the inner try block ends: 200 when it ran through, the
\* status of the failed request (500 when there was no answer), 0 for an
\* error that is not an HTTP answer
KeyFetchStatus(answered, resp, st) ==
    IF ~answered THEN 500
    ELSE IF resp.status # 200 THEN resp.status
    ELSE IF ~HasPrivateKey(st) THEN 0
    ELSE IF ~decryptMessage(resp.data.encryptedProjectKey, st.privateKey).ok THEN 0
    ELSE 200

\* lines 142-168: the existing project key, or on 404 a new one wrapped for
\* the pushing user
PushKey ==
    /\ push.pc = "key"
    /\ LET resp == getProjectKey(srv, Me)
           unwrapped == decryptMessage(resp.data.encryptedProjectKey, store.privateKey)
           projectKey == generateProjectKey(rng)
           me == getMe(srv, Me)
       IN  \E answered \in BOOLEAN :
           \E meAnswered \in (IF answered /\ resp.status # 200 THEN BOOLEAN ELSE {TRUE}) :
             LET status == KeyFetchStatus(answered, resp, store)
                 p == [push EXCEPT !.keyStatus = status, !.keyless = Keyless(srv)]
                 end(error) == [p EXCEPT !.pc = "done", !.outcome = "failed",
                                         !.error = error]
             IN  IF status = 200
                 THEN /\ requests' = Append(requests, Call("getProjectKey", [none |-> 0]))
                      /\ push' = [p EXCEPT !.pc = "upload",
                                           !.projectKey = unwrapped.value,
                                           !.encryptedProjectKey =
                                                resp.data.encryptedProjectKey]
                      /\ UNCHANGED rng
                 ELSE IF NoKeyExists(status)
                 THEN /\ requests' = requests \o <<Call("getProjectKey", [none |-> 0]),
                                                   Call("getMe", [none |-> 0])>>
                      /\ rng' = rng + 1
                      /\ push' = IF ~meAnswered
                                 THEN end("request")
                                 ELSE IF me.publicKey = NoPublicKey
                                 THEN end("User public key not found")
                                 ELSE [p EXCEPT !.pc = "upload",
                                                !.projectKey = projectKey,
                                                !.encryptedProjectKey =
                                                     encryptMessage(projectKey, me.publicKey)]
                 ELSE /\ requests' = Append(requests, Call("getProjectKey", [none |-> 0]))
                      /\ push' = IF status # 0 THEN end("request")
                                 ELSE IF ~HasPrivateKey(store)
                                 THEN end("Private key not found")
                                 ELSE end("unwrap")
                      /\ UNCHANGED rng
    /\ UNCHANGED <<loginVars, srv, dotenv, config, pull, rot, inv>>

\* lines 170-174: the bundle push makes of content under projectKey with
\* the IV iv
BundleOf(content, projectKey, iv) ==
    LET sealed == encryptEnvFile(content, projectKey, iv)
    IN  [encryptedData |-> sealed.encrypted, iv |-> sealed.iv,
         sha256 |-> Sha256(sealed.encrypted)]

\* lines 170-185: encryptEnvFile, the SHA-256 of the ciphertext, uploadSecrets
PushUpload ==
    /\ push.pc = "upload"
    /\ LET bundle == BundleOf(push.envContent, push.projectKey, rng)
           call == Call("uploadSecrets",
                        UploadBody(push.environment, bundle.encryptedData, bundle.iv,
                                   push.encryptedProjectKey, bundle.sha256,
                                   push.changeDetails))
       IN  /\ rng' = rng + 1
           /\ requests' = Append(requests, call)
           /\ \E accepted \in BOOLEAN :
                 IF accepted
                 THEN /\ srv' = ServerApply(srv, Me, call)
                      /\ push' = PushEnd("pushed", "")
                 ELSE /\ push' = PushEnd("failed", "request")
                      /\ UNCHANGED srv
    /\ UNCHANGED <<loginVars, dotenv, config, pull, rot, inv>>

(***************************************************************************)
(* The same push run by another member of the project on another machine,  *)
(* as `dotveil push --without-check`; that member is logged in and has a   *)
(* .env of its own.                                                        *)
(***************************************************************************)
Peer == 2

\* lines 14-51, 131-133: the checks pass, the difference check is skipped
PeerBegin ==
    /\ peer.pc = "idle"
    /\ \E environment \in EnvNames, envContent \in {<<65, 61, 50>>, <<66, 61, 50>>} :
          peer' = [IdlePeer EXCEPT !.pc = "key", !.environment = environment,
                                   !.envContent = envContent]
    /\ UNCHANGED <<rng, requests, store, srvVault, loginPc, attempts, user, masterPw, vaultKey, logins, kdfLen, cred, expand, projVars>>

\* lines 142-168, for the other member
PeerKey ==
    /\ peer.pc = "key"
    /\ LET privateKey == UserKeyPair(Peer).privateKey
           resp == getProjectKey(srv, Peer)
           unwrapped == decryptMessage(resp.data.encryptedProjectKey, privateKey)
           projectKey == generateProjectKey(rng)
           me == getMe(srv, Peer)
       IN  \E answered \in BOOLEAN :
             LET status == KeyFetchStatus(answered, resp, storePrivateKey(EmptyStore, privateKey))
                 p == [peer EXCEPT !.keyStatus = status, !.keyless = Keyless(srv)]
             IN  IF status = 200
                 THEN /\ peer' = [p EXCEPT !.pc = "upload",
                                           !.projectKey = unwrapped.value,
                                           !.encryptedProjectKey =
                                                resp.data.encryptedProjectKey]
                      /\ UNCHANGED rng
                 ELSE IF NoKeyExists(status)
                 THEN /\ rng' = rng + 1
                      /\ peer' = IF me.publicKey = NoPublicKey
                                 THEN [p EXCEPT !.pc = "done", !.outcome = "failed",
                                                !.error = "User public key not found"]
                                 ELSE [p EXCEPT !.pc = "upload",
                                                !.projectKey = projectKey,
                                                !.encryptedProjectKey =
                                                     encryptMessage(projectKey, me.publicKey)]
                 ELSE /\ peer' = [p EXCEPT !.pc = "done", !.outcome = "failed",
                                           !.error = IF status # 0 THEN "request"
                                                     ELSE "unwrap"]
                      /\ UNCHANGED rng
    /\ UNCHANGED <<requests, store, srvVault, loginPc, attempts, user, masterPw, vaultKey, logins, kdfLen, cred, expand, projVars>>

\* lines 170-185, for the other member
PeerUpload ==
    /\ peer.pc = "upload"
    /\ LET bundle == BundleOf(peer.envContent, peer.projectKey, rng)
           call == Call("uploadSecrets",
                        UploadBody(peer.environment, bundle.encryptedData, bundle.iv,
                                   peer.encryptedProjectKey, bundle.sha256,
                                   SkippedCheck))
       IN  /\ rng' = rng + 1
           /\ \E accepted \in BOOLEAN :
                 IF accepted
                 THEN /\ srv' = ServerApply(srv, Peer, call)
                      /\ peer' = [peer EXCEPT !.pc = "done", !.outcome = "pushed"]
                 ELSE /\ peer' = [peer EXCEPT !.pc = "done", !.outcome = "failed",
                                              !.error = "request"]
                      /\ UNCHANGED srv
    /\ UNCHANGED <<requests, store, srvVault, loginPc, attempts, user, masterPw, vaultKey, logins, kdfLen, cred, expand, dotenv, config, push, pull, rot, inv>>

(***************************************************************************)
(* pull, src/src/commands/dashboard.ts:187-359.                            *)
(***************************************************************************)
\* hex digit d with bit b (0..3) flipped
FlipBit(d, b) ==
    LET w == <<1, 2, 4, 8>>[b + 1]
    IN  IF (d \div w) % 2 = 1 THEN d - w ELSE d + w

\* the hex string s with one bit flipped, in every way
BitFlips(s) ==
    { [s EXCEPT ![i] = FlipBit(s[i], b)] : i \in 1..Len(s), b \in 0..3 }

\* the bundle the server sent, and the bundle with one bit of encryptedData
\* or of sha256 flipped
Receivable(data) ==
    {data}
    \cup {[data EXCEPT !.encryptedData = t] : t \in BitFlips(data.encryptedData)}
    \cup {[data EXCEPT !.sha256 = t] : t \in BitFlips(data.sha256)}

\* the project key the members' envelopes hold (0: none established)
EstablishedKey(s) == s.keys[Me].payload

\* a key that is not the project's
WrongKey == 999

\* a pull that takes every digest for the right one
DigestNeverFails(data) == FALSE

\* lines 332-337: if (sha256) and calculatedSha256 !== sha256
DigestFails(data) ==
    data.sha256 # <<>> /\ Sha256(data.encryptedData) # data.sha256

\* lines 230-357: what pull does with the answer `data` of downloadSecrets
\* (answered: the request succeeded), given the options, the credential
\* store, the local .env and dotveil.json.  The result: the outcome, the
\* error reported, whether decryptEnvFile was called, whether the user
\* answered yes to the overwrite prompt, and the two files.
PullRun(environment, serviceToken, envProjectKey, force, confirm, answered, data, st, file, cfg) ==
    LET done(outcome, error) ==
            [outcome |-> outcome, error |-> error, decrypted |-> FALSE,
             confirmed |-> FALSE,
             remoteEnvContent |-> <<>>, dotenv |-> file, config |-> cfg]
        unwrapped == decryptMessage(data.encryptedProjectKey, st.privateKey)
        projectKey == IF serviceToken /\ envProjectKey # 0
                      THEN envProjectKey ELSE unwrapped.value
        remote == decryptEnvFile(data.encryptedData, projectKey, data.iv)
        changes == DiffEnv(DotenvParse(file.content), DotenvParse(remote.value))
        prompted == file.exists /\ ChangeCount(changes) > 0 /\ ~force /\ ~serviceToken
        recorded == IF data.sha256 # <<>>
                    THEN [cfg EXCEPT !.state[environment] = data.sha256] ELSE cfg
        ran(outcome, error, newFile, newCfg) ==
            [outcome |-> outcome, error |-> error, decrypted |-> TRUE,
             confirmed |-> prompted /\ confirm,
             remoteEnvContent |-> remote.value, dotenv |-> newFile, config |-> newCfg]
    IN  IF ~answered THEN done("failed", "request")
        ELSE IF ~(serviceToken /\ envProjectKey # 0) /\ ~HasPrivateKey(st)
        THEN done("failed", "Private key not found. Please re-login.")
        ELSE IF ~(serviceToken /\ envProjectKey # 0)
                /\ data.encryptedProjectKey = NoEnvelope
        THEN done("failed", "No encrypted project key returned from server.")
        ELSE IF ~(serviceToken /\ envProjectKey # 0) /\ ~unwrapped.ok
        THEN done("failed", "unwrap")
        ELSE IF ~remote.ok
        THEN [done("failed", "authentication") EXCEPT !.decrypted = TRUE]
        ELSE IF file.exists /\ file.content = remote.value
        THEN [ran("up to date", "", file, recorded) EXCEPT !.confirmed = FALSE]
        ELSE IF prompted /\ ~confirm
        THEN ran("aborted", "", file, cfg)
        ELSE IF DigestFails(data)
        THEN ran("failed", "integrity", file, cfg)
        ELSE ran("pulled", "", [exists |-> TRUE, content |-> remote.value], recorded)

\* the pull command; with `tampering`, what arrives is not what the server
\* sent
PullCommand(tampering) ==
    /\ NoCommandRunning
    /\ pull.pc = "idle"
    /\ \E environment \in EnvNames, serviceToken \in BOOLEAN :
       \E envProjectKey \in (IF serviceToken THEN {0, EstablishedKey(srv), WrongKey}
                             ELSE {0}),
          force \in (IF serviceToken THEN {FALSE} ELSE BOOLEAN),
          answered \in (IF tampering THEN {TRUE} ELSE BOOLEAN) :
       \E confirm \in (IF serviceToken \/ force THEN {FALSE} ELSE BOOLEAN) :
          LET resp == downloadSecrets(srv, Me, environment)
              call == Call("downloadSecrets", [environment |-> environment, purpose |-> ""])
          IN  IF serviceToken /\ envProjectKey = 0
              THEN /\ pull' = [IdlePull EXCEPT !.pc = "done", !.environment = environment,
                                  !.serviceToken = TRUE,
                                  !.outcome = "DOTVEIL_PROJECT_KEY is required"]
                   /\ requests' = <<>>
                   /\ UNCHANGED <<dotenv, config>>
              ELSE IF ~serviceToken /\ ~isLoggedIn(store)
              THEN /\ pull' = [IdlePull EXCEPT !.pc = "done", !.environment = environment,
                                  !.outcome = "not logged in"]
                   /\ requests' = <<>>
                   /\ UNCHANGED <<dotenv, config>>
              ELSE IF ~config.exists
              THEN /\ pull' = [IdlePull EXCEPT !.pc = "done", !.environment = environment,
                                  !.serviceToken = serviceToken,
                                  !.outcome = "dotveil.json not found"]
                   /\ requests' = <<>>
                   /\ UNCHANGED <<dotenv, config>>
              ELSE \E data \in (IF tampering
                                THEN (IF resp.status = 200
                                      THEN Receivable(resp.data) \ {resp.data} ELSE {})
                                ELSE {resp.data}) :
                     LET r == PullRun(environment, serviceToken, envProjectKey, force,
                                      confirm, answered /\ resp.status = 200, data,
                                      store, dotenv, config)
                     IN  /\ pull' = [pc |-> "done", environment |-> environment,
                                     serviceToken |-> serviceToken,
                                     received |-> [encryptedData |-> data.encryptedData,
                                                   iv |-> data.iv, sha256 |-> data.sha256],
                                     tampered |-> data # resp.data,
                                     decrypted |-> r.decrypted,
                                     remoteEnvContent |-> r.remoteEnvContent,
                                     outcome |-> r.outcome, error |-> r.error,
                                     wroteEnv |-> r.dotenv # dotenv,
                                     wroteState |-> r.config # config,
                                     force |-> force, confirmed |-> r.confirmed,
                                     localEnv |-> dotenv]
                         /\ dotenv' = r.dotenv
                         /\ config' = r.config
                         /\ requests' = <<call>>
    /\ UNCHANGED <<rng, loginVars, srv, push, rot, inv>>

\* pull over a channel that delivers what the server sent
Pull == PullCommand(FALSE)

\* pull of a bundle one bit of which was flipped on the server or on the way
PullTampered == PullCommand(TRUE)

\* the working copy loses its .env (a fresh checkout, another machine)
RemoveEnv ==
    /\ NoCommandRunning
    /\ pull.pc = "idle"
    /\ dotenv.exists
    /\ dotenv' = [exists |-> FALSE, content |-> <<>>]
    /\ UNCHANGED <<rng, requests, loginVars, srv, config, push, pull, rot, inv>>

(***************************************************************************)
(* keys rotate, src/src/commands/keys.ts:74-215.  One step per request to  *)
(* the server; what is staged lives in the command's local variables until *)
(* rotateKey.                                                              *)
(***************************************************************************)
RotateEnd(at, outcome, error) ==
    [rot EXCEPT !.pc = "done", !.at = at, !.outcome = outcome, !.error = error]

\* an environment loop that swallows every error
RethrownNever(status) == FALSE

\* lines 178-182: an error of the environment's block is rethrown unless
\* it is the answer 404 (status 0: not an HTTP error)
Rethrown(status) == status # 404

\* a rotation that replaces the bundle on the server as it goes
SecretRequestEager(environment) ==
    Call("uploadSecrets",
         UploadBody(environment, <<>>, 0, NoEnvelope, <<>>, NoChanges))

\* line 123: the request for an environment's current bundle
SecretRequest(environment) ==
    Call("downloadSecrets", [environment |-> environment, purpose |-> "rotate"])

\* a re-encryption that keeps the old key
ReEncryptUnderOldKey(encryptedData, oldIv, currentProjectKey, newProjectKey, iv) ==
    LET decryptedEnv == decryptEnvFile(encryptedData, currentProjectKey, oldIv)
    IN  IF decryptedEnv.ok
        THEN [ok |-> TRUE, value |-> BundleOf(decryptedEnv.value, currentProjectKey, iv)]
        ELSE [ok |-> FALSE, value |-> NoBundle]

\* lines 126-139, 152-164: decrypt under the old key, encrypt under the new
\* one with a fresh IV, digest of the new ciphertext
ReEncrypt(encryptedData, oldIv, currentProjectKey, newProjectKey, iv) ==
    LET decryptedEnv == decryptEnvFile(encryptedData, currentProjectKey, oldIv)
    IN  IF decryptedEnv.ok
        THEN [ok |-> TRUE, value |-> BundleOf(decryptedEnv.value, newProjectKey, iv)]
        ELSE [ok |-> FALSE, value |-> NoBundle]

\* a version loop that takes every version for decryptable
DecryptableAll(versions, key) == 1..Len(versions)

\* the indices of the versions that decrypt under key
Decryptable(versions, key) ==
    {i \in 1..Len(versions) :
        decryptEnvFile(versions[i].encryptedData, key, versions[i].iv).ok}

\* the n-th largest element of the set S of numbers
NthFromEnd(S, n) == CHOOSE i \in S : Cardinality({j \in S : j >= i}) = n

\* the n-th smallest element of the set S of numbers
NthOf(S, n) == CHOOSE i \in S : Cardinality({j \in S : j <= i}) = n

\* lines 150-176, the try block: the versions that decrypt, re-encrypted in
\* the order of the list, the IVs being iv0, iv0 + 1, ...
ReEncryptedVersionsOf(versions, currentProjectKey, newProjectKey, iv0) ==
    LET good == Decryptable(versions, currentProjectKey)
    IN  [n \in 1..Cardinality(good) |->
            LET version == versions[NthOf(good, n)]
                new == ReEncrypt(version.encryptedData, version.iv,
                                 currentProjectKey, newProjectKey, iv0 + n - 1).value
            IN  [id |-> version.id, encryptedData |-> new.encryptedData,
                 iv |-> new.iv, sha256 |-> new.sha256]]

\* a version loop that drops the failures without a word
SkippedVersionsUnreported(versions, currentProjectKey, environment) == <<>>

\* lines 173-175, the catch block: one warning per version that failed,
\* naming version.version and env.name
SkippedVersionsOf(versions, currentProjectKey, environment) ==
    LET bad == (1..Len(versions)) \ Decryptable(versions, currentProjectKey)
    IN  [n \in 1..Cardinality(bad) |->
            [version |-> versions[NthOf(bad, n)].version, env |-> environment]]

\* a member loop without the check of the public key
MemberEnvelopesForAll(members, newProjectKey) ==
    [u \in {members[i].userId : i \in 1..Len(members)} |->
        encryptMessage(newProjectKey, EntryFor(members, "userId", u).publicKey)]

\* lines 190-198: an envelope for every member that has a public key
MemberEnvelopes(members, newProjectKey) ==
    [u \in {members[i].userId : i \in {j \in 1..Len(members) :
                                          members[j].publicKey # NoPublicKey}} |->
        encryptMessage(newProjectKey, EntryFor(members, "userId", u).publicKey)]

\* lines 191-194: one warning per member without a public key
SkippedMembersOf(members) ==
    LET bad == {i \in 1..Len(members) : members[i].publicKey = NoPublicKey}
    IN  [n \in 1..Cardinality(bad) |-> members[NthOf(bad, n)].email]

\* lines 82-98: the checks before the try block
RotateBegin ==
    /\ rot.pc = "idle"
    /\ requests' = <<>>
    /\ rot' = IF ~isLoggedIn(store)
              THEN [IdleRot EXCEPT !.pc = "done", !.before = srv,
                                   !.outcome = "not logged in"]
              ELSE IF ~config.exists
              THEN [IdleRot EXCEPT !.pc = "done", !.before = srv,
                                   !.outcome = "dotveil.json not found"]
              ELSE [IdleRot EXCEPT !.pc = "key", !.before = srv]
    /\ UNCHANGED <<rng, loginVars, srv, dotenv, config, push, pull, inv>>

\* `dotveil keys rotate` typed at the terminal where no other command is
\* running
RotateStart ==
    /\ NoCommandRunning
    /\ inv.pc = "idle"
    /\ RotateBegin

\* lines 103-111: getProjectKey, the private key, decryptMessage,
\* generateProjectKey
RotateFetchKey ==
    /\ rot.pc = "key"
    /\ LET resp == getProjectKey(srv, Me)
           call == Call("getProjectKey", [none |-> 0])
           currentProjectKey == decryptMessage(resp.data.encryptedProjectKey,
                                               store.privateKey)
       IN  /\ requests' = Append(requests, call)
           /\ srv' = ServerApply(srv, Me, call)
           /\ \E answered \in BOOLEAN :
                 IF ~answered \/ resp.status # 200
                 THEN rot' = RotateEnd("key", "failed", "request") /\ UNCHANGED rng
                 ELSE IF ~HasPrivateKey(store)
                 THEN rot' = RotateEnd("key", "failed", "Private key not found")
                      /\ UNCHANGED rng
                 ELSE IF ~currentProjectKey.ok
                 THEN rot' = RotateEnd("key", "failed", "unwrap") /\ UNCHANGED rng
                 ELSE /\ rot' = [rot EXCEPT !.pc = "envs",
                                            !.currentProjectKey = currentProjectKey.value,
                                            !.newProjectKey = generateProjectKey(rng)]
                      /\ rng' = rng + 1
    /\ UNCHANGED <<loginVars, dotenv, config, push, pull, inv>>

\* line 115: listEnvironments
RotateListEnvironments ==
    /\ rot.pc = "envs"
    /\ LET call == Call("listEnvironments", [none |-> 0])
       IN  /\ requests' = Append(requests, call)
           /\ srv' = ServerApply(srv, Me, call)
           /\ \E answered \in BOOLEAN :
                 rot' = IF ~answered
                        THEN RotateEnd("envs", "failed", "request")
                        ELSE [rot EXCEPT !.environments = listEnvironments(srv),
                                         !.envIndex = 1,
                                         !.pc = IF listEnvironments(srv) = <<>>
                                                THEN "members" ELSE "download"]
    /\ UNCHANGED <<rng, loginVars, dotenv, config, push, pull, inv>>

\* the loop of line 120 goes on to the next environment, or leaves
NextEnvironment(r) ==
    IF r.envIndex < Len(r.environments)
    THEN [r EXCEPT !.envIndex = @ + 1, !.pc = "download"]
    ELSE [r EXCEPT !.pc = "members"]

\* lines 121-146, 178-182: the current bundle of the environment at hand
RotateDownload ==
    /\ rot.pc = "download"
    /\ LET env == rot.environments[rot.envIndex]
           call == SecretRequest(env.name)
           resp == downloadSecrets(srv, Me, env.name)
           new == ReEncrypt(resp.data.encryptedData, resp.data.iv,
                            rot.currentProjectKey, rot.newProjectKey, rng)
       IN  /\ requests' = Append(requests, call)
           /\ srv' = ServerApply(srv, Me, call)
           /\ \E answered \in BOOLEAN :
                 IF ~answered
                 THEN /\ rot' = IF Rethrown(500)
                                THEN RotateEnd("download", "failed", "request")
                                ELSE NextEnvironment(rot)
                      /\ UNCHANGED rng
                 ELSE IF resp.status # 200
                 THEN /\ rot' = IF Rethrown(resp.status)
                                THEN RotateEnd("download", "failed", "request")
                                ELSE NextEnvironment(rot)
                      /\ UNCHANGED rng
                 ELSE IF ~new.ok
                 THEN /\ rot' = IF Rethrown(0)
                                THEN RotateEnd("download", "failed", "decrypt")
                                ELSE NextEnvironment(rot)
                      /\ UNCHANGED rng
                 ELSE /\ rot' = [rot EXCEPT
                                   !.pc = "versions",
                                   !.reEncryptedSecrets = Append(@,
                                       [environmentId |-> env.id,
                                        encryptedData |-> new.value.encryptedData,
                                        iv |-> new.value.iv,
                                        sha256 |-> new.value.sha256])]
                      /\ rng' = rng + 1
    /\ UNCHANGED <<loginVars, dotenv, config, push, pull, inv>>

\* lines 148-176: the versions of the environment at hand
RotateVersions ==
    /\ rot.pc = "versions"
    /\ LET env == rot.environments[rot.envIndex]
           call == Call("getSecretVersions", [environment |-> env.name])
           versions == getSecretVersions(srv, env.name)
           done == ReEncryptedVersionsOf(versions, rot.currentProjectKey,
                                         rot.newProjectKey, rng)
           skipped == SkippedVersionsOf(versions, rot.currentProjectKey, env.name)
       IN  /\ requests' = Append(requests, call)
           /\ srv' = ServerApply(srv, Me, call)
           /\ \E answered \in BOOLEAN :
                 IF ~answered
                 THEN /\ rot' = RotateEnd("versions", "failed", "request")
                      /\ UNCHANGED rng
                 ELSE /\ rot' = NextEnvironment(
                                  [rot EXCEPT !.reEncryptedVersions = @ \o done,
                                              !.skippedVersions = @ \o skipped])
                      /\ rng' = rng + Len(done)
    /\ UNCHANGED <<loginVars, dotenv, config, push, pull, inv>>

\* lines 187-198: listMembers and the member loop
RotateListMembers ==
    /\ rot.pc = "members"
    /\ LET call == Call("listMembers", [none |-> 0])
           members == listMembers(srv)
       IN  /\ requests' = Append(requests, call)
           /\ srv' = ServerApply(srv, Me, call)
           /\ \E answered \in BOOLEAN :
                 rot' = IF ~answered
                        THEN RotateEnd("members", "failed", "request")
                        ELSE [rot EXCEPT
                                !.pc = "commit",
                                !.newEncryptedProjectKeys =
                                    MemberEnvelopes(members, rot.newProjectKey),
                                !.skippedMembers = SkippedMembersOf(members)]
    /\ UNCHANGED <<rng, loginVars, dotenv, config, push, pull, inv>>

\* lines 202-209: rotateKey with everything staged
RotateCommit ==
    /\ rot.pc = "commit"
    /\ LET call == Call("rotateKey",
                        [newEncryptedProjectKeys |-> rot.newEncryptedProjectKeys,
                         reEncryptedSecrets |-> rot.reEncryptedSecrets,
                         reEncryptedVersions |-> rot.reEncryptedVersions])
       IN  /\ requests' = Append(requests, call)
           /\ \E accepted \in BOOLEAN :
                 IF accepted
                 THEN /\ srv' = ServerApply(srv, Me, call)
                      /\ rot' = RotateEnd("commit", "rotated", "")
                 ELSE /\ rot' = RotateEnd("commit", "failed", "request")
                      /\ UNCHANGED srv
    /\ UNCHANGED <<rng, loginVars, dotenv, config, push, pull, inv>>

\* the process is interrupted between two steps
RotateCancel ==
    /\ rot.pc \in {"key", "envs", "download", "versions", "members", "commit"}
    /\ rot' = RotateEnd(rot.pc, "cancelled", "")
    /\ UNCHANGED <<rng, requests, loginVars, srv, dotenv, config, push, pull, inv>>

(***************************************************************************)
(* member invite, src/src/commands/member.ts:12-77.                        *)
(***************************************************************************)
InviteEnd(email, outcome, error) ==
    [pc |-> "done", email |-> email, outcome |-> outcome, error |-> error]

\* the invite command, in a project no rotation of which was given up
Invite ==
    /\ NoCommandRunning
    /\ inv.pc = "idle"
    /\ rot.pc = "idle" \/ rot.outcome = "rotated"
    /\ \E email \in UserIds \ {Me}, environment \in {"dev"} :
       \E answers \in 0..3 :
          LET userToAdd == lookupUser(srv, email)
              resp == downloadSecrets(srv, Me, environment)
              projectKey == decryptMessage(resp.data.encryptedProjectKey, store.privateKey)
              lookup == Call("lookupUser", [email |-> email])
              download == Call("downloadSecrets",
                               [environment |-> environment, purpose |-> "invite"])
              invite == Call("inviteMember",
                             [email |-> email, role |-> "VIEWER",
                              encryptedProjectKey |->
                                  encryptMessage(projectKey.value, userToAdd.publicKey)])
          IN  IF ~isLoggedIn(store)
              THEN /\ inv' = InviteEnd(email, "not logged in", "")
                   /\ requests' = <<>>
                   /\ UNCHANGED srv
              ELSE IF ~config.exists
              THEN /\ inv' = InviteEnd(email, "dotveil.json not found", "")
                   /\ requests' = <<>>
                   /\ UNCHANGED srv
              ELSE IF answers = 0
              THEN /\ inv' = InviteEnd(email, "failed", "request")
                   /\ requests' = <<lookup>>
                   /\ UNCHANGED srv
              ELSE IF userToAdd.publicKey = NoPublicKey
              THEN /\ inv' = InviteEnd(email, "no public key", "")
                   /\ requests' = <<lookup>>
                   /\ UNCHANGED srv
              ELSE IF answers = 1 \/ resp.status # 200
              THEN /\ inv' = InviteEnd(email, "failed", "request")
                   /\ requests' = <<lookup, download>>
                   /\ UNCHANGED srv
              ELSE IF ~HasPrivateKey(store)
              THEN /\ inv' = InviteEnd(email, "failed", "Private key not found")
                   /\ requests' = <<lookup, download>>
                   /\ UNCHANGED srv
              ELSE IF ~projectKey.ok
              THEN /\ inv' = InviteEnd(email, "failed", "unwrap")
                   /\ requests' = <<lookup, download>>
                   /\ UNCHANGED srv
              ELSE IF answers = 2
              THEN /\ inv' = InviteEnd(email, "failed", "request")
                   /\ requests' = <<lookup, download, invite>>
                   /\ UNCHANGED srv
              ELSE /\ inv' = InviteEnd(email, "invited", "")
                   /\ requests' = <<lookup, download, invite>>
                   /\ srv' = ServerApply(srv, Me, invite)
    /\ UNCHANGED <<rng, loginVars, dotenv, config, push, pull, rot>>

(***************************************************************************)
(* StorageManager in detail, src/src/utils/StorageManager.ts:13-158.  A    *)
(* string is the sequence of its character codes; a value that may be null *)
(* or undefined is a record [null, value].  The keychain is a function     *)
(* from account names to passwords, the fallback file the list of the      *)
(* members of the JSON object written to it, in order.                     *)
(***************************************************************************)
Null == [null |-> TRUE, value |-> <<>>]

Str(value) == [null |-> FALSE, value |-> value]

\* !x for a string, null or undefined
Falsy(x) == x.null \/ x.value = <<>>

\* 'access_token'
ACCESS_TOKEN_KEY == <<97, 99, 99, 101, 115, 115, 95, 116, 111, 107, 101, 110>>

\* 'private_key'
PRIVATE_KEY_KEY == <<112, 114, 105, 118, 97, 116, 101, 95, 107, 101, 121>>

CHUNK_SIZE == 2000

\* Number.prototype.toString() of a natural number
RECURSIVE toString(_)
toString(n) ==
    IF n < 10 THEN <<48 + n>> ELSE Append(toString(n \div 10), 48 + (n % 10))

\* the number the first k characters of str, all digits, denote
RECURSIVE DigitsValue(_, _)
DigitsValue(str, k) ==
    IF k = 0 THEN 0 ELSE 10 * DigitsValue(str, k - 1) + (str[k] - 48)

\* parseInt(str, 10) of a string without sign or blanks: the value of the
\* leading digits, NaN (here -1: no i satisfies i < NaN) when there is none
parseInt(str) ==
    LET digits == CHOOSE k \in 0..Len(str) :
                     /\ \A i \in 1..k : str[i] \in 48..57
                     /\ k = Len(str) \/ str[k + 1] \notin 48..57
    IN  IF digits = 0 THEN -1 ELSE DigitsValue(str, digits)

\* `${PRIVATE_KEY_KEY}_count`
CountAccount == PRIVATE_KEY_KEY \o <<95, 99, 111, 117, 110, 116>>

\* `${PRIVATE_KEY_KEY}_${i}`
ChunkAccount(i) == PRIVATE_KEY_KEY \o <<95>> \o toString(i)

\* keytar.getPassword / setPassword / deletePassword for the service 'dotveil'
getPassword(keytar, account) ==
    IF account \in DOMAIN keytar THEN Str(keytar[account]) ELSE Null

setPassword(keytar, account, password) ==
    [a \in DOMAIN keytar \cup {account} |->
        IF a = account THEN password ELSE keytar[a]]

deletePassword(keytar, account) == [a \in DOMAIN keytar \ {account} |-> keytar[a]]

NoFile == [exists |-> FALSE, content |-> <<>>]

\* lines 36-43: {} when there is no file, else what was written
getFallbackConfig(file) == IF file.exists THEN file.content ELSE <<>>

\* lines 45-48
saveFallbackConfig(file, cfg) == [exists |-> TRUE, content |-> cfg]

\* config[name]
ConfigGet(cfg, name) ==
    IF \E i \in 1..Len(cfg) : cfg[i].name = name
    THEN Str(cfg[CHOOSE i \in 1..Len(cfg) : cfg[i].name = name].value)
    ELSE Null

\* config[name] = value
ConfigSet(cfg, name, value) ==
    IF \E i \in 1..Len(cfg) : cfg[i].name = name
    THEN [i \in 1..Len(cfg) |->
             IF cfg[i].name = name THEN [cfg[i] EXCEPT !.value = value]
             ELSE cfg[i]]
    ELSE Append(cfg, [name |-> name, value |-> value])

\* x || null
OrNull(x) == IF Falsy(x) THEN Null ELSE x

\* lines 53-61
SM_storeAccessToken(c, token) ==
    IF c.useFallback
    THEN [c EXCEPT !.file = saveFallbackConfig(@,
                      ConfigSet(getFallbackConfig(c.file), ACCESS_TOKEN_KEY, token))]
    ELSE [c EXCEPT !.keytar = setPassword(@, ACCESS_TOKEN_KEY, token)]

\* lines 66-73
SM_getAccessToken(c) ==
    IF c.useFallback
    THEN OrNull(ConfigGet(getFallbackConfig(c.file), ACCESS_TOKEN_KEY))
    ELSE getPassword(c.keytar, ACCESS_TOKEN_KEY)

\* a split that drops what is left after the last full chunk
ChunksWithoutRest(privateKey) ==
    [n \in 1..(Len(privateKey) \div CHUNK_SIZE) |->
        SubSeq(privateKey, (n - 1) * CHUNK_SIZE + 1, n * CHUNK_SIZE)]

\* lines 85-90: privateKey.slice(i, i + CHUNK_SIZE) for i = 0, CHUNK_SIZE, ...
Chunks(privateKey) ==
    [n \in 1..((Len(privateKey) + CHUNK_SIZE - 1) \div CHUNK_SIZE) |->
        SubSeq(privateKey, (n - 1) * CHUNK_SIZE + 1,
               IF n * CHUNK_SIZE < Len(privateKey) THEN n * CHUNK_SIZE
               ELSE Len(privateKey))]

\* lines 94-96: the first n chunks written to their accounts
RECURSIVE SetChunks(_, _, _)
SetChunks(keytar, chunks, n) ==
    IF n = 0 THEN keytar
    ELSE setPassword(SetChunks(keytar, chunks, n - 1), ChunkAccount(n - 1), chunks[n])

\* lines 78-98
SM_storePrivateKey(c, privateKey) ==
    IF c.useFallback
    THEN [c EXCEPT !.file = saveFallbackConfig(@,
                      ConfigSet(getFallbackConfig(c.file), PRIVATE_KEY_KEY, privateKey))]
    ELSE LET chunks == Chunks(privateKey)
         IN  [c EXCEPT !.keytar =
                 SetChunks(setPassword(@, CountAccount, toString(Len(chunks))),
                           chunks, Len(chunks))]

\* lines 115-123: the chunks 0..count-1 joined, null when one is missing or
\* empty
RECURSIVE ReadChunks(_, _)
ReadChunks(keytar, count) ==
    IF count <= 0 THEN Str(<<>>)
    ELSE LET front == ReadChunks(keytar, count - 1)
             chunk == getPassword(keytar, ChunkAccount(count - 1))
         IN  IF front.null \/ Falsy(chunk) THEN Null
             ELSE Str(front.value \o chunk.value)

\* lines 103-125
SM_getPrivateKey(c) ==
    IF c.useFallback
    THEN OrNull(ConfigGet(getFallbackConfig(c.file), PRIVATE_KEY_KEY))
    ELSE LET countStr == getPassword(c.keytar, CountAccount)
         IN  IF Falsy(countStr)
             THEN getPassword(c.keytar, PRIVATE_KEY_KEY)
             ELSE ReadChunks(c.keytar, parseInt(countStr.value))

\* lines 141-143
RECURSIVE DeleteChunks(_, _)
DeleteChunks(keytar, count) ==
    IF count <= 0 THEN keytar
    ELSE deletePassword(DeleteChunks(keytar, count - 1), ChunkAccount(count - 1))

\* lines 130-149
SM_clearAll(c) ==
    IF c.useFallback
    THEN [c EXCEPT !.file = NoFile]
    ELSE LET keytar == deletePassword(c.keytar, ACCESS_TOKEN_KEY)
             countStr == getPassword(keytar, CountAccount)
         IN  [c EXCEPT !.keytar =
                 IF ~Falsy(countStr)
                 THEN deletePassword(DeleteChunks(keytar, parseInt(countStr.value)),
                                     CountAccount)
                 ELSE deletePassword(keytar, PRIVATE_KEY_KEY)]

\* lines 154-157
SM_isLoggedIn(c) == ~SM_getAccessToken(c).null

\* a process in storePrivateKey: the key it was given, the chunks written
\* so far, and all keys given to storePrivateKey on this device
IdleWriter == [pc |-> "idle", privateKey |-> <<>>, i |-> 0, calls |-> 0, passed |-> {}]

\* a process in getPrivateKey: its local variables count, i and privateKey,
\* and what it returned
IdleReader == [pc |-> "idle", count |-> 0, i |-> 0, privateKey |-> <<>>,
               result |-> Null]

\* a device on which nothing has been stored; token and key are what was
\* stored last since the last clear
NewDevice(useFallback) ==
    [useFallback |-> useFallback, keytar |-> [a \in {} |-> <<>>], file |-> NoFile,
     ops |-> 0, last |-> "", token |-> Null, key |-> Null,
     writer |-> IdleWriter, reader |-> IdleReader]

IdleCred == NewDevice(FALSE)

\* the access tokens "t1", "t2"
Tokens == {<<116, 49>>, <<116, 50>>}

\* a private key of n characters, the v-th of that length
PrivateKeyOf(n, v) == [i \in 1..n |-> 65 + ((i + v) % 26)]

\* the lengths of the private keys stored: none, one, and around one and
\* two chunks
KeyLengths == {0, 1, CHUNK_SIZE, CHUNK_SIZE + 1, 2 * CHUNK_SIZE + 1}

PrivateKeys == {PrivateKeyOf(n, v) : n \in KeyLengths, v \in 1..2}

otherVars == <<rng, requests, store, srvVault, loginPc, attempts, user, masterPw, vaultKey, logins, kdfLen, peer, expand, projVars>>

\* storage.storeAccessToken(token), login.ts:98
StoreToken ==
    /\ cred.ops < MaxStoreOps
    /\ \E token \in Tokens :
          cred' = [SM_storeAccessToken(cred, token) EXCEPT
                      !.ops = @ + 1, !.last = "storeAccessToken",
                      !.token = Str(token)]
    /\ UNCHANGED otherVars

\* storage.storePrivateKey(privateKey), login.ts:208, 250
StoreKey ==
    /\ cred.ops < MaxStoreOps
    /\ \E privateKey \in PrivateKeys :
          cred' = [SM_storePrivateKey(cred, privateKey) EXCEPT
                      !.ops = @ + 1, !.last = "storePrivateKey",
                      !.key = Str(privateKey)]
    /\ UNCHANGED otherVars

\* storage.clearAll(), login.ts:40, 176, 269
ClearAll ==
    /\ cred.ops < MaxStoreOps
    /\ cred' = [SM_clearAll(cred) EXCEPT
                   !.ops = @ + 1, !.last = "clearAll", !.token = Null, !.key = Null]
    /\ UNCHANGED otherVars

\* logout.ts:11-22: clearAll unless isLoggedIn answers false
Logout ==
    /\ cred.ops < MaxStoreOps
    /\ cred' = IF ~SM_isLoggedIn(cred)
               THEN [cred EXCEPT !.ops = @ + 1, !.last = "not logged in"]
               ELSE [SM_clearAll(cred) EXCEPT
                        !.ops = @ + 1, !.last = "clearAll", !.token = Null,
                        !.key = Null]
    /\ UNCHANGED otherVars

(***************************************************************************)
(* storePrivateKey in one process and getPrivateKey in another, on the     *)
(* keychain they share; one step per awaited keytar call.                  *)
(***************************************************************************)
MaxWrites == 1

\* line 92: the first await of storePrivateKey, setPassword of the count
WriterCount ==
    /\ cred.writer.pc \in {"idle", "done"}
    /\ cred.writer.calls < MaxWrites
    /\ \E privateKey \in PrivateKeys :
          LET chunks == Chunks(privateKey)
          IN  cred' = [cred EXCEPT
                  !.keytar = setPassword(@, CountAccount, toString(Len(chunks))),
                  !.writer = [pc |-> IF Len(chunks) = 0 THEN "done" ELSE "chunks",
                              privateKey |-> privateKey, i |-> 0,
                              calls |-> @.calls + 1,
                              passed |-> @.passed \cup {privateKey}]]
    /\ UNCHANGED otherVars

\* lines 94-96: one turn of the loop, setPassword of chunk i
WriterChunk ==
    /\ cred.writer.pc = "chunks"
    /\ LET chunks == Chunks(cred.writer.privateKey)
           i == cred.writer.i
       IN  cred' = [cred EXCEPT
               !.keytar = setPassword(@, ChunkAccount(i), chunks[i + 1]),
               !.writer.i = i + 1,
               !.writer.pc = IF i + 1 < Len(chunks) THEN "chunks" ELSE "done"]
    /\ UNCHANGED otherVars

\* lines 108-116: getPassword of the count; without one, of the key itself
ReaderCount ==
    /\ cred.reader.pc = "idle"
    /\ LET countStr == getPassword(cred.keytar, CountAccount)
           count == parseInt(countStr.value)
       IN  cred' = [cred EXCEPT !.reader =
               IF Falsy(countStr)
               THEN [@ EXCEPT !.pc = "done",
                              !.result = getPassword(cred.keytar, PRIVATE_KEY_KEY)]
               ELSE IF 0 < count
               THEN [@ EXCEPT !.pc = "chunks", !.count = count]
               ELSE [@ EXCEPT !.pc = "done", !.count = count, !.result = Str(<<>>)]]
    /\ UNCHANGED otherVars

\* lines 118-124: one turn of the loop, getPassword of chunk i
ReaderChunk ==
    /\ cred.reader.pc = "chunks"
    /\ LET i == cred.reader.i
           chunk == getPassword(cred.keytar, ChunkAccount(i))
           privateKey == cred.reader.privateKey \o chunk.value
       IN  cred' = [cred EXCEPT !.reader =
               IF Falsy(chunk)
               THEN [@ EXCEPT !.pc = "done", !.result = Null]
               ELSE IF i + 1 < cred.reader.count
               THEN [@ EXCEPT !.i = i + 1, !.privateKey = privateKey]
               ELSE [@ EXCEPT !.pc = "done", !.i = i + 1, !.privateKey = privateKey,
                              !.result = Str(privateKey)]]
    /\ UNCHANGED otherVars

(***************************************************************************)
(* expandSecrets, src/src/commands/whoami.ts:56-79.  A secrets map is the  *)
(* list of its members [key, value] in the order of Object.keys; keys and  *)
(* values are strings.                                                     *)
(***************************************************************************)
MAX_DEPTH == 5

\* [a-zA-Z0-9_]
NameChars == (97..122) \cup (65..90) \cup (48..57) \cup {95}

\* the first index from j on that holds no character of a name
RECURSIVE NameEnd(_, _)
NameEnd(value, j) ==
    IF j <= Len(value) /\ value[j] \in NameChars THEN NameEnd(value, j + 1) ELSE j

\* line 64, /\$\{([a-zA-Z0-9_]+)\}/: the index of the closing brace of the
\* match that starts at i, 0 when none starts there
MatchEnd(value, i) ==
    IF /\ i + 3 <= Len(value)
       /\ value[i] = 36
       /\ value[i + 1] = 123
       /\ NameEnd(value, i + 2) > i + 2
       /\ NameEnd(value, i + 2) <= Len(value)
       /\ value[NameEnd(value, i + 2)] = 125
    THEN NameEnd(value, i + 2)
    ELSE 0

\* varRegex.test(value); replace leaves lastIndex at 0
Test(value) == \E i \in 1..Len(value) : MatchEnd(value, i) # 0

\* expanded[varName] !== undefined
Defined(expanded, varName) == \E k \in 1..Len(expanded) : expanded[k].key = varName

\* expanded[varName]
Lookup(expanded, varName) ==
    expanded[CHOOSE k \in 1..Len(expanded) : expanded[k].key = varName].value

\* lines 67-70: value.replace(varRegex, ...) from index i on; what replaces
\* a match is not scanned again
RECURSIVE Replace(_, _, _)
Replace(value, i, expanded) ==
    IF i > Len(value) THEN <<>>
    ELSE LET e == MatchEnd(value, i)
             varName == SubSeq(value, i + 2, e - 1)
         IN  IF e = 0
             THEN <<value[i]>> \o Replace(value, i + 1, expanded)
             ELSE (IF Defined(expanded, varName) THEN Lookup(expanded, varName)
                   ELSE SubSeq(value, i, e))
                  \o Replace(value, e + 1, expanded)

\* lines 66-72: while (varRegex.test(value) && depth < MAX_DEPTH)
RECURSIVE ExpandValue(_, _, _)
ExpandValue(value, depth, expanded) ==
    IF Test(value) /\ depth < MAX_DEPTH
    THEN ExpandValue(Replace(value, 1, expanded), depth + 1, expanded)
    ELSE value

\* lines 60-75: for (const key of Object.keys(expanded)), from the k-th on
RECURSIVE ExpandFrom(_, _)
ExpandFrom(expanded, k) ==
    IF k > Len(expanded) THEN expanded
    ELSE ExpandFrom([expanded EXCEPT ![k].value = ExpandValue(@, 0, expanded)], k + 1)

\* lines 56-79
expandSecrets(secrets) == ExpandFrom(secrets, 1)

\* the longest chain of variables in a secrets map of the model
MaxChain == 7

\* the name of the i-th variable: "a", "b", ...
VarName(i) == <<96 + i>>

\* "${" varName "}"
Ref(varName) == <<36, 123>> \o varName \o <<125>>

\* the values of the i-th of n variables: "x"; for the last one a
\* reference to a variable that is not defined; for the others a reference
\* to the next variable, alone or in a text next to a reference to a
\* variable that is not defined
ValuesOf(i, n) ==
    IF i < n
    THEN {<<120>>, Ref(VarName(i + 1)),
          <<47>> \o Ref(VarName(i + 1)) \o <<58>> \o Ref(<<95, 49>>)}
    ELSE {<<120>>, Ref(<<122, 122>>)}

\* the lists of values of the variables i..n
RECURSIVE ValueLists(_, _)
ValueLists(i, n) ==
    IF i > n THEN {<<>>}
    ELSE {<<v>> \o rest : v \in ValuesOf(i, n), rest \in ValueLists(i + 1, n)}

\* the secrets maps of n variables, each referring to the next at most, the
\* keys in the order of the chain or against it
SecretsMaps(n) ==
    {[k \in 1..n |-> [key |-> VarName(k), value |-> v[k]]] : v \in ValueLists(1, n)}
    \cup {[k \in 1..n |-> [key |-> VarName(n + 1 - k), value |-> v[n + 1 - k]]] :
             v \in ValueLists(1, n)}

\* expandSecrets(secrets), called by `dotveil run`
ExpandSecrets ==
    /\ expand.pc = "idle"
    /\ expand' = [expand EXCEPT !.pc = "done", !.expanded = expandSecrets(expand.secrets)]
    /\ UNCHANGED <<rng, requests, store, srvVault, loginPc, attempts, user, masterPw, vaultKey, logins, kdfLen, cred, peer, projVars>>

(***************************************************************************)
(* Pushes of one user to one project, then a pull.  The project starts     *)
(* empty or with a dev bundle pushed earlier under the key OldKey with the *)
(* IV OldIv; the user's envelope is present, absent, or made for another   *)
(* keypair.                                                                *)
(***************************************************************************)
OldKey == 41

OldIv == 7

VersionOf(id, version, bundle) ==
    [id |-> id, version |-> version, encryptedData |-> bundle.encryptedData,
     iv |-> bundle.iv, sha256 |-> bundle.sha256]

\* a project with the members' accounts and nothing pushed
EmptyProject ==
    [keys |-> [u \in UserIds |-> NoEnvelope],
     secrets |-> [e \in EnvNames |-> NoBundle],
     versions |-> [e \in EnvNames |-> <<>>],
     members |-> Members,
     users |-> [u \in UserIds |-> UserKeyPair(u).publicKey],
     envs |-> Environments,
     invitations |-> {}]

\* the credential store after a login on this device
LoggedIn == [accessToken |-> AccessToken, privateKey |-> UserKeyPair(Me).privateKey]

\* no login in progress
IdleLogin ==
    /\ srvVault = NoVault
    /\ loginPc = "done"
    /\ attempts = 0
    /\ user = NoVault
    /\ masterPw = <<>>
    /\ vaultKey = <<>>
    /\ logins = MaxLogins
    /\ kdfLen = 0
    /\ cred = IdleCred
    /\ peer = IdlePeer
    /\ expand = IdleExpand

\* no project command has run
IdleProject ==
    /\ push = IdlePush
    /\ pull = IdlePull
    /\ rot = IdleRot
    /\ inv = IdleInv

InitPull ==
    /\ rng \in 1..MaxSeed
    /\ requests = <<>>
    /\ store \in {LoggedIn, [LoggedIn EXCEPT !.privateKey = <<>>], EmptyStore}
    /\ IdleLogin
    /\ IdleProject
    /\ \E remote \in EnvContents, pushed \in BOOLEAN,
          envelope \in {NoEnvelope, encryptMessage(OldKey, UserKeyPair(Me).publicKey),
                        encryptMessage(OldKey, UserKeyPair(Outsider).publicKey)} :
          srv = IF pushed /\ envelope # NoEnvelope
                THEN [EmptyProject EXCEPT
                        !.keys[Me] = envelope,
                        !.secrets["dev"] = BundleOf(remote, OldKey, OldIv),
                        !.versions["dev"] =
                            <<VersionOf(1, 1, BundleOf(remote, OldKey, OldIv))>>]
                ELSE [EmptyProject EXCEPT !.keys[Me] = envelope]
    /\ dotenv \in {[exists |-> FALSE, content |-> <<>>]}
                  \cup {[exists |-> TRUE, content |-> c] : c \in EnvContents}
    /\ config = [exists |-> TRUE, state |-> [e \in EnvNames |-> <<>>]]

NextPull ==
    \/ PushStart
    \/ PushKey
    \/ PushUpload
    \/ RemoveEnv
    \/ Pull

SpecPull == InitPull /\ [][NextPull]_vars

(***************************************************************************)
(* Pull of a bundle that push produced, from a server or over a channel    *)
(* that flips one bit of it; the user is logged in, the envelope is the    *)
(* user's own or one wrapped for somebody else.                            *)
(***************************************************************************)
InitTamper ==
    /\ \E iv \in 1..MaxSeed, remote \in EnvContents,
          recipient \in {Me, Outsider} :
          /\ rng = iv + 1
          /\ srv = [EmptyProject EXCEPT
                      !.keys[Me] = encryptMessage(OldKey, UserKeyPair(recipient).publicKey),
                      !.secrets["dev"] = BundleOf(remote, OldKey, iv),
                      !.versions["dev"] = <<VersionOf(1, 1, BundleOf(remote, OldKey, iv))>>]
    /\ requests = <<>>
    /\ store = LoggedIn
    /\ IdleLogin
    /\ IdleProject
    /\ dotenv \in {[exists |-> FALSE, content |-> <<>>]}
                  \cup {[exists |-> TRUE, content |-> c] : c \in EnvContents}
    /\ config = [exists |-> TRUE, state |-> [e \in EnvNames |-> <<>>]]

NextTamper ==
    \/ Pull
    \/ PullTampered

SpecTamper == InitTamper /\ [][NextTamper]_vars

(***************************************************************************)
(* Rotation and invitation in a project with history.  Each environment   *)
(* has no bundle, or up to MaxVersions versions pushed under OldKey, the   *)
(* current bundle being the newest; up to MaxCorrupt of the stored items   *)
(* were corrupted at rest; members 2 and 3 may never have set up a vault.  *)
(***************************************************************************)
EnvId(e) == IF e = "dev" THEN 1 ELSE 2

\* the content of version k of environment e
ContentAt(e, k) ==
    <<<<65, 61, 49>>, <<65, 61, 50>>, <<65, 61, 49, 10, 66, 61, 50>>, <<>>>>
        [((EnvId(e) + k) % 4) + 1]

\* what the server stores for version k of environment e; a corrupted item
\* has one bit of its ciphertext flipped
StoredItem(e, k, corrupted) ==
    LET bundle == BundleOf(ContentAt(e, k), OldKey, 10 * EnvId(e) + k)
    IN  IF corrupted
        THEN [bundle EXCEPT !.encryptedData[1] = FlipBit(@, 0)]
        ELSE bundle

\* the stored items of a project with n[e] versions in environment e; k = 0
\* stands for the current bundle
StoredItems(n) ==
    {[env |-> e, k |-> k] : e \in {x \in EnvNames : n[x] > 0}, k \in 0..MaxVersions}
        \ {i \in [env : EnvNames, k : 0..MaxVersions] : i.k > n[i.env]}

ProjectWithHistory(n, corrupt, noKey, envelope) ==
    [keys |-> [u \in UserIds |->
                 IF u = Me THEN envelope
                 ELSE IF u \in {Members[i] : i \in 1..Len(Members)} \ noKey
                 THEN encryptMessage(OldKey, UserKeyPair(u).publicKey)
                 ELSE NoEnvelope],
     secrets |-> [e \in EnvNames |->
                    IF n[e] = 0 THEN NoBundle
                    ELSE StoredItem(e, n[e], [env |-> e, k |-> 0] \in corrupt)],
     versions |-> [e \in EnvNames |->
                     [k \in 1..n[e] |->
                        VersionOf(10 * EnvId(e) + k, k,
                                  StoredItem(e, k, [env |-> e, k |-> k] \in corrupt))]],
     members |-> Members,
     users |-> [u \in UserIds |->
                  IF u \in noKey THEN NoPublicKey ELSE UserKeyPair(u).publicKey],
     envs |-> Environments,
     invitations |-> {}]

InitRotate ==
    /\ rng = 1
    /\ requests = <<>>
    /\ IdleLogin
    /\ IdleProject
    /\ dotenv = [exists |-> FALSE, content |-> <<>>]
    /\ config = [exists |-> TRUE, state |-> [e \in EnvNames |-> <<>>]]
    /\ \/ /\ store = LoggedIn
          /\ \E n \in [EnvNames -> 0..MaxVersions], noKey \in SUBSET {2, 3} :
             \E corrupt \in {c \in SUBSET StoredItems(n) : Cardinality(c) <= MaxCorrupt} :
                srv = ProjectWithHistory(n, corrupt, noKey,
                          encryptMessage(OldKey, UserKeyPair(Me).publicKey))
       \/ /\ store \in {[LoggedIn EXCEPT !.privateKey = <<>>], EmptyStore}
          /\ srv = ProjectWithHistory([e \in EnvNames |-> 1], {}, {},
                       encryptMessage(OldKey, UserKeyPair(Me).publicKey))
       \/ /\ store = LoggedIn
          /\ \E envelope \in {NoEnvelope,
                              encryptMessage(OldKey, UserKeyPair(Outsider).publicKey)} :
                srv = ProjectWithHistory([e \in EnvNames |-> 1], {}, {}, envelope)

NextRotate ==
    \/ RotateStart
    \/ RotateFetchKey
    \/ RotateListEnvironments
    \/ RotateDownload
    \/ RotateVersions
    \/ RotateListMembers
    \/ RotateCommit
    \/ RotateCancel
    \/ Invite

SpecRotate == InitRotate /\ [][NextRotate]_vars

\* login on a device with an empty credential store, no project at hand
InitLogin ==
    /\ rng \in 1..MaxSeed
    /\ requests = <<>>
    /\ store = EmptyStore
    /\ srvVault = NoVault
    /\ loginPc = "start"
    /\ attempts = 0
    /\ user = NoVault
    /\ masterPw = <<>>
    /\ vaultKey = <<>>
    /\ logins = 1
    /\ kdfLen = 0
    /\ cred = IdleCred
    /\ peer = IdlePeer
    /\ expand = IdleExpand
    /\ IdleProject
    /\ srv = EmptyProject
    /\ dotenv = [exists |-> FALSE, content |-> <<>>]
    /\ config = [exists |-> TRUE, state |-> [e \in EnvNames |-> <<>>]]

NextLogin ==
    \/ LoginStart
    \/ LoginInitiate
    \/ LoginPoll
    \/ LoginTimeout
    \/ NewUserPrompt
    \/ NewUserRetry
    \/ NewUserSetup
    \/ ExistingUserPrompt
    \/ ExistingUserRetry
    \/ LoginAgain

SpecLogin == InitLogin /\ [][NextLogin]_vars

(***************************************************************************)
(* Calls of the StorageManager of one device, with the keychain or with    *)
(* the fallback file.                                                      *)
(***************************************************************************)
InitStore ==
    /\ rng = 1
    /\ requests = <<>>
    /\ store = EmptyStore
    /\ srvVault = NoVault
    /\ loginPc = "done"
    /\ attempts = 0
    /\ user = NoVault
    /\ masterPw = <<>>
    /\ vaultKey = <<>>
    /\ logins = MaxLogins
    /\ kdfLen = 0
    /\ cred \in {NewDevice(useFallback) : useFallback \in BOOLEAN}
    /\ peer = IdlePeer
    /\ expand = IdleExpand
    /\ IdleProject
    /\ srv = EmptyProject
    /\ dotenv = [exists |-> FALSE, content |-> <<>>]
    /\ config = [exists |-> TRUE, state |-> [e \in EnvNames |-> <<>>]]

NextStore ==
    \/ StoreToken
    \/ StoreKey
    \/ ClearAll
    \/ Logout

SpecStore == InitStore /\ [][NextStore]_vars

(***************************************************************************)
(* The keychain holds nothing or a private key stored in full; one process *)
(* stores keys, another reads the key once.                                *)
(***************************************************************************)
InitTorn ==
    /\ rng = 1
    /\ requests = <<>>
    /\ store = EmptyStore
    /\ srvVault = NoVault
    /\ loginPc = "done"
    /\ attempts = 0
    /\ user = NoVault
    /\ masterPw = <<>>
    /\ vaultKey = <<>>
    /\ logins = MaxLogins
    /\ kdfLen = 0
    /\ cred \in {NewDevice(FALSE)}
                \cup {[SM_storePrivateKey(NewDevice(FALSE), k) EXCEPT
                          !.key = Str(k), !.writer.passed = {k}] : k \in PrivateKeys}
    /\ peer = IdlePeer
    /\ expand = IdleExpand
    /\ IdleProject
    /\ srv = EmptyProject
    /\ dotenv = [exists |-> FALSE, content |-> <<>>]
    /\ config = [exists |-> TRUE, state |-> [e \in EnvNames |-> <<>>]]

NextTorn ==
    \/ WriterCount
    \/ WriterChunk
    \/ ReaderCount
    \/ ReaderChunk

SpecTorn == InitTorn /\ [][NextTorn]_vars

(***************************************************************************)
(* expandSecrets applied to a secrets map without cycle.                   *)
(***************************************************************************)
InitExpand ==
    /\ rng = 1
    /\ requests = <<>>
    /\ store = EmptyStore
    /\ srvVault = NoVault
    /\ loginPc = "done"
    /\ attempts = 0
    /\ user = NoVault
    /\ masterPw = <<>>
    /\ vaultKey = <<>>
    /\ logins = MaxLogins
    /\ kdfLen = 0
    /\ cred = IdleCred
    /\ peer = IdlePeer
    /\ \E n \in 1..MaxChain : \E secrets \in SecretsMaps(n) :
          expand = [IdleExpand EXCEPT !.secrets = secrets]
    /\ IdleProject
    /\ srv = EmptyProject
    /\ dotenv = [exists |-> FALSE, content |-> <<>>]
    /\ config = [exists |-> TRUE, state |-> [e \in EnvNames |-> <<>>]]

NextExpand == ExpandSecrets

SpecExpand == InitExpand /\ [][NextExpand]_vars

(***************************************************************************)
(* A push and a rotation of the same project from two terminals of one     *)
(* user, their requests reaching the server in any order.  Every member    *)
(* has an envelope of OldKey; an environment has no bundle or one version. *)
(***************************************************************************)
InitRace ==
    /\ rng = 1
    /\ requests = <<>>
    /\ store = LoggedIn
    /\ IdleLogin
    /\ IdleProject
    /\ \E n \in [EnvNames -> 0..1] :
          srv = ProjectWithHistory(n, {}, {},
                    encryptMessage(OldKey, UserKeyPair(Me).publicKey))
    /\ dotenv \in {[exists |-> TRUE, content |-> c] : c \in EnvContents}
    /\ config = [exists |-> TRUE, state |-> [e \in EnvNames |-> <<>>]]

NextRace ==
    \/ PushBegin
    \/ PushKey
    \/ PushUpload
    \/ RotateBegin
    \/ RotateFetchKey
    \/ RotateListEnvironments
    \/ RotateDownload
    \/ RotateVersions
    \/ RotateListMembers
    \/ RotateCommit

SpecRace == InitRace /\ [][NextRace]_vars

(***************************************************************************)
(* Two members push to a project for which no key has been established,    *)
(* each from its own machine, their requests reaching the server in any    *)
(* order.                                                                  *)
(***************************************************************************)
InitFirstPush ==
    /\ rng \in 1..MaxSeed
    /\ requests = <<>>
    /\ store = LoggedIn
    /\ IdleLogin
    /\ IdleProject
    /\ srv = EmptyProject
    /\ dotenv \in {[exists |-> TRUE, content |-> c] : c \in EnvContents}
    /\ config = [exists |-> TRUE, state |-> [e \in EnvNames |-> <<>>]]

NextFirstPush ==
    \/ PushBegin
    \/ PushKey
    \/ PushUpload
    \/ PeerBegin
    \/ PeerKey
    \/ PeerUpload

SpecFirstPush == InitFirstPush /\ [][NextFirstPush]_vars

(***************************************************************************)
(* Claims about login.                                                     *)
(***************************************************************************)
\* the calls of the running command that are op
CallsOf(op) == {i \in 1..Len(requests) : requests[i].op = op}

\* C7: at first-time login the only form of the private key that
\* updateVault is given is the one encrypted under the key derived from the
\* master password (it opens under that password to the generated key, and
\* is neither the key nor its hex form), with its salt and IV and the public
\* key; no ApiClient call of login carries the master password.
C7_VaultUploadIsProtected ==
    \A i \in 1..Len(requests) :
        LET r == requests[i]
        IN  /\ r.op \in {"initiateAuth", "pollAuth", "updateVault"}
            /\ r.op = "initiateAuth" => r.body = [none |-> 0]
            /\ r.op = "pollAuth" => r.body = [deviceCode |-> 1]
            /\ r.op = "updateVault" =>
                 /\ DOMAIN r.body = {"publicKey", "encryptedPrivateKey", "salt", "iv"}
                 /\ r.body.publicKey = RsaPublicOf(vaultKey)
                 /\ r.body.encryptedPrivateKey \notin
                        {vaultKey, HexEncode(vaultKey), masterPw, HexEncode(masterPw)}
                 /\ LET opened == decryptPrivateKey(r.body.encryptedPrivateKey,
                                                    masterPw, r.body.salt, r.body.iv)
                    IN  opened.ok /\ opened.value = vaultKey

\* C7's case: first-time setup has sent its vault
C7_Witness == CallsOf("updateVault") # {}

\* what recovering the vault v gives for every password tried
RecoversOnlyUnder(v, pw, pk) ==
    \A tried \in Passphrases :
        LET r == decryptPrivateKey(v.encryptedPrivateKey, tried, v.salt, v.iv)
        IN  IF tried = pw THEN r.ok /\ r.value = pk
                          ELSE ~r.ok /\ r.value = <<>>

\* C9: what encryptPrivateKey(pk, pw) returned opens under pw to exactly pk
\* and under every other password (one differing only in a letter's case
\* too) fails with no key; so the key an existing user's login stores is pk.
C9_PrivateKeyRecovery ==
    /\ srvVault # NoVault => RecoversOnlyUnder(srvVault, masterPw, vaultKey)
    /\ \A i \in CallsOf("updateVault") :
          RecoversOnlyUnder(requests[i].body, masterPw, vaultKey)
    /\ store.privateKey # <<>> => store.privateKey = vaultKey

\* C9's case: a login on a device with an existing vault recovered the key
C9_Witness ==
    /\ loginPc = "done"
    /\ user # NoVault
    /\ store.privateKey = vaultKey
    /\ vaultKey # <<>>

(***************************************************************************)
(* Claims about push and pull.                                             *)
(***************************************************************************)
\* the names of the variables of the .env contents
VariableNames == UNION {DOMAIN DotenvParse(c) : c \in EnvContents}

\* C1: a pull that received a bundle one bit of whose encryptedData or
\* sha256 was flipped never reports success, never writes .env and never
\* records state in dotveil.json.
C1_TamperedPullNeverSucceeds ==
    (pull.pc = "done" /\ pull.tampered) =>
        /\ pull.outcome \notin {"pulled", "up to date"}
        /\ ~pull.wroteEnv
        /\ ~pull.wroteState

\* C6: no uploadSecrets body names a variable of the plaintext .env.
C6_NoPlaintextInRequests ==
    \A i \in 1..Len(requests) :
        requests[i].op = "uploadSecrets" =>
            LET changes == requests[i].body.changes
            IN  (changes.added \cup changes.removed \cup changes.modified)
                    \cap VariableNames = {}

\* C8: what push uploads is encryptEnvFile(P, K) of the file P under the
\* project key K, and decryptEnvFile of it under K and its IV is exactly P;
\* a pull that follows a push of P to the same environment and unwraps the
\* same project key reads exactly P and, when it writes .env, writes P.
C8_SecretRoundTrip ==
    /\ \A i \in 1..Len(requests) :
          requests[i].op = "uploadSecrets" =>
             /\ requests[i].body.encryptedData =
                   encryptEnvFile(push.envContent, push.projectKey,
                                  requests[i].body.iv).encrypted
             /\ decryptEnvFile(requests[i].body.encryptedData, push.projectKey,
                               requests[i].body.iv) = Ok(push.envContent)
    /\ (/\ pull.pc = "done"
        /\ push.outcome = "pushed"
        /\ pull.environment = push.environment
        /\ ~pull.serviceToken
        /\ HasPrivateKey(store)
        /\ pull.error # "request")
       => /\ pull.outcome \in {"pulled", "up to date"}
          /\ pull.remoteEnvContent = push.envContent
          /\ pull.outcome = "pulled" =>
                dotenv = [exists |-> TRUE, content |-> push.envContent]

\* a push of a non-empty file, then a pull into a working copy without .env
C8_Witness ==
    /\ pull.pc = "done"
    /\ pull.outcome = "pulled"
    /\ pull.wroteEnv
    /\ push.outcome = "pushed"
    /\ pull.environment = push.environment
    /\ push.envContent # <<>>

\* the pull received a bundle the digest of which is not the SHA-256 of its
\* ciphertext
DigestMismatch ==
    /\ pull.pc = "done"
    /\ pull.received.sha256 # <<>>
    /\ Sha256(pull.received.encryptedData) # pull.received.sha256

\* C11: a bundle whose digest does not match the SHA-256 of its ciphertext
\* is never passed to decryptEnvFile.
C11_DigestCheckedBeforeDecryption == DigestMismatch => ~pull.decrypted

\* C12: a pull by a user whose envelope is in order never reports a bundle
\* whose ciphertext no longer matches its digest as an authentication
\* failure.
C12_MismatchNeverAuthenticationError ==
    (DigestMismatch /\ ~pull.serviceToken) => pull.error # "authentication"

\* C15: push goes on to the upload only with a key it established: a new
\* key only when getProjectKey answered 404, the server holding no envelope
\* for the user, and then wrapped under the user's own public key; the
\* existing key when there is one, with the server's envelope unchanged.
\* The envelope every uploadSecrets call carries is the established one, and
\* a push whose fetch or unwrap failed otherwise has uploaded nothing.
C15_KeyEstablishment ==
    /\ push.pc = "upload" =>
          /\ push.keyStatus \in {200, 404}
          /\ push.keyStatus = 404 <=> srv.keys[Me] = NoEnvelope
          /\ push.keyStatus = 404 =>
                /\ push.projectKey = generateProjectKey(rng - 1)
                /\ push.encryptedProjectKey =
                      encryptMessage(push.projectKey, UserKeyPair(Me).publicKey)
          /\ push.keyStatus = 200 =>
                /\ push.encryptedProjectKey = srv.keys[Me]
                /\ decryptMessage(srv.keys[Me], store.privateKey) = Ok(push.projectKey)
    /\ (push.pc # "idle" /\ CallsOf("uploadSecrets") # {}) =>
          /\ push.pc = "done"
          /\ push.keyStatus \in {200, 404}
          /\ \A i \in CallsOf("uploadSecrets") :
                /\ requests[i].body.encryptedProjectKey = push.encryptedProjectKey
                /\ decryptEnvFile(requests[i].body.encryptedData, push.projectKey,
                                  requests[i].body.iv) = Ok(push.envContent)
    /\ (push.pc = "done" /\ push.keyStatus \notin {0, 200, 404}) =>
          /\ CallsOf("uploadSecrets") = {}
          /\ push.outcome = "failed"
    /\ (push.pc = "done" /\ push.keyStatus = 0 /\ CallsOf("getProjectKey") # {}) =>
          /\ CallsOf("uploadSecrets") = {}
          /\ push.outcome = "failed"

\* a first push that made a key
C15_Witness ==
    /\ push.pc = "done"
    /\ push.outcome = "pushed"
    /\ push.keyStatus = 404
    /\ srv.keys[Me] = encryptMessage(push.projectKey, UserKeyPair(Me).publicKey)

\* a push under the key that existed
C15_WitnessExisting ==
    /\ push.pc = "done"
    /\ push.outcome = "pushed"
    /\ push.keyStatus = 200
    /\ push.projectKey = OldKey

\* C16: a push whose diff ran into a failure of decryptMessage or of
\* decryptEnvFile ends as a failed command.
C16_PushReportsCryptoFailure ==
    (push.pc = "done" /\ push.diffError \in {"unwrap", "authentication"})
    => push.outcome = "failed"

\* C17: login never gives deriveKey a passphrase of fewer than
\* MIN_PASSWORD characters.
C17_NoKeyFromShortPassphrase == kdfLen # 0 => kdfLen >= MIN_PASSWORD

\* C18 as stated: getPrivateKey returns the key stored last since the last
\* clear, whatever string it is, and getAccessToken the token stored last
\* since the last clear.
C18_StoreRoundTrip ==
    /\ ~cred.key.null => SM_getPrivateKey(cred) = cred.key
    /\ ~cred.token.null => SM_getAccessToken(cred) = cred.token

\* C18: in keychain mode and in fallback mode getPrivateKey returns the key
\* stored last since the last clear when that key is not the empty string,
\* also after longer, shorter or other keys were stored before it; in
\* keychain mode it returns the empty key too; getAccessToken returns the
\* token stored last since the last clear.
C18_StoreRoundTripNonEmpty ==
    /\ (~cred.key.null /\ (cred.key.value # <<>> \/ ~cred.useFallback))
          => SM_getPrivateKey(cred) = cred.key
    /\ ~cred.token.null => SM_getAccessToken(cred) = cred.token

\* keychain mode: a key of two chunks stored after one of three, read back
C18_Witness ==
    /\ ~cred.useFallback
    /\ cred.last = "storePrivateKey"
    /\ Len(cred.key.value) = CHUNK_SIZE + 1
    /\ ChunkAccount(2) \in DOMAIN cred.keytar
    /\ SM_getPrivateKey(cred) = cred.key

\* C19: after clearAll getAccessToken and getPrivateKey return null,
\* isLoggedIn is false, the fallback file is gone and the keychain holds no
\* access token, no private key and no chunk of one.
C19_ClearAllLeavesNothing ==
    cred.last = "clearAll" =>
        /\ SM_getAccessToken(cred).null
        /\ SM_getPrivateKey(cred).null
        /\ ~SM_isLoggedIn(cred)
        /\ ~cred.file.exists
        /\ DOMAIN cred.keytar \subseteq {CountAccount}

(***************************************************************************)
(* Claims about rotation and invitation.                                   *)
(***************************************************************************)
\* the environments of project s that have a current bundle
BundleEnvs(s) == {e \in EnvNames : s.secrets[e] # NoBundle}

\* item (a bundle, a version, a staged re-encryption) decrypts under key
OpensUnder(item, key) == decryptEnvFile(item.encryptedData, key, item.iv).ok

PlainOf(item, key) == decryptEnvFile(item.encryptedData, key, item.iv).value

\* the versions retained for the environments that have a bundle
RetainedVersions(s) ==
    UNION {{s.versions[e][i] : i \in 1..Len(s.versions[e])} : e \in BundleEnvs(s)}

EnvOfVersion(s, v) ==
    CHOOSE e \in EnvNames : \E i \in 1..Len(s.versions[e]) : s.versions[e][i] = v

BadBundles(s, key) == {e \in BundleEnvs(s) : ~OpensUnder(s.secrets[e], key)}

BadVersions(s, key) == {v \in RetainedVersions(s) : ~OpensUnder(v, key)}

MembersOf(s) == {s.members[i] : i \in 1..Len(s.members)}

KeylessMembers(s) == {m \in MembersOf(s) : s.users[m] = NoPublicKey}

\* the positions of the rotateKey calls of the running command
RotateKeyCalls == {i \in 1..Len(requests) : requests[i].op = "rotateKey"}

\* the rotation committed, and no later command has run
Committed == rot.pc = "done" /\ rot.outcome = "rotated" /\ inv.pc = "idle"

\* the entries of the sequence q the field of which is v
EntriesFor(q, field, v) == {i \in 1..Len(q) : q[i][field] = v}

\* the payload has exactly one entry for the item, and the entry decrypts
\* under the new key to what the item held and not under the old key
ReEncryptedOnce(q, field, v, item) ==
    /\ Cardinality(EntriesFor(q, field, v)) = 1
    /\ \A i \in EntriesFor(q, field, v) :
          /\ OpensUnder(q[i], rot.newProjectKey)
          /\ PlainOf(q[i], rot.newProjectKey) = PlainOf(item, rot.currentProjectKey)
          /\ ~OpensUnder(q[i], rot.currentProjectKey)
          /\ q[i].sha256 = Sha256(q[i].encryptedData)

\* C2: after a successful rotation of a project without corrupted items all
\* of whose members have a public key, the rotateKey payload holds exactly
\* one re-encrypted bundle per environment with a bundle, exactly one
\* re-encrypted version per retained version and exactly one envelope per
\* member; each decrypts under the new key and none under the old one.
C2_RotationCompleteness ==
    (/\ Committed
     /\ BadBundles(rot.before, rot.currentProjectKey) = {}
     /\ BadVersions(rot.before, rot.currentProjectKey) = {}
     /\ KeylessMembers(rot.before) = {})
    => LET body == requests[Len(requests)].body
       IN  /\ requests[Len(requests)].op = "rotateKey"
           /\ Len(body.reEncryptedSecrets) = Cardinality(BundleEnvs(rot.before))
           /\ \A e \in BundleEnvs(rot.before) :
                 ReEncryptedOnce(body.reEncryptedSecrets, "environmentId", EnvId(e),
                                 rot.before.secrets[e])
           /\ Len(body.reEncryptedVersions) = Cardinality(RetainedVersions(rot.before))
           /\ \A v \in RetainedVersions(rot.before) :
                 ReEncryptedOnce(body.reEncryptedVersions, "id", v.id, v)
           /\ DOMAIN body.newEncryptedProjectKeys = MembersOf(rot.before)
           /\ rot.newProjectKey # rot.currentProjectKey
           /\ \A m \in MembersOf(rot.before) :
                 decryptMessage(body.newEncryptedProjectKeys[m],
                                UserKeyPair(m).privateKey) = Ok(rot.newProjectKey)

\* 3 members, 2 environments with 3 versions each: 2 bundles, 6 versions,
\* 3 envelopes
C2_Witness ==
    /\ Committed
    /\ BadBundles(rot.before, rot.currentProjectKey) = {}
    /\ BadVersions(rot.before, rot.currentProjectKey) = {}
    /\ KeylessMembers(rot.before) = {}
    /\ Len(rot.reEncryptedSecrets) = 2
    /\ Len(rot.reEncryptedVersions) = 6
    /\ Cardinality(DOMAIN rot.newEncryptedProjectKeys) = 3

\* C3: when exactly one retained version does not decrypt under the old
\* key, nothing but a failed request stops the rotation; the committed
\* payload holds every current bundle and every other version, not that
\* version, and exactly one skipped item is reported, naming that version's
\* number and environment.
C3_RotationPartialFailure ==
    (/\ rot.pc = "done"
     /\ rot.currentProjectKey # 0
     /\ inv.pc = "idle"
     /\ BadBundles(rot.before, rot.currentProjectKey) = {}
     /\ Cardinality(BadVersions(rot.before, rot.currentProjectKey)) = 1)
    => /\ rot.outcome = "failed" => rot.error = "request"
       /\ rot.outcome = "rotated" =>
             LET body == requests[Len(requests)].body
                 bad == CHOOSE v \in BadVersions(rot.before, rot.currentProjectKey) : TRUE
             IN  /\ requests[Len(requests)].op = "rotateKey"
                 /\ Len(body.reEncryptedSecrets) = Cardinality(BundleEnvs(rot.before))
                 /\ \A e \in BundleEnvs(rot.before) :
                       ReEncryptedOnce(body.reEncryptedSecrets, "environmentId",
                                       EnvId(e), rot.before.secrets[e])
                 /\ Len(body.reEncryptedVersions) =
                       Cardinality(RetainedVersions(rot.before)) - 1
                 /\ \A v \in RetainedVersions(rot.before) \ {bad} :
                       ReEncryptedOnce(body.reEncryptedVersions, "id", v.id, v)
                 /\ EntriesFor(body.reEncryptedVersions, "id", bad.id) = {}
                 /\ rot.skippedVersions =
                       <<[version |-> bad.version,
                          env |-> EnvOfVersion(rot.before, bad)]>>

C3_Witness ==
    /\ Committed
    /\ BadBundles(rot.before, rot.currentProjectKey) = {}
    /\ Cardinality(BadVersions(rot.before, rot.currentProjectKey)) = 1
    /\ Len(rot.skippedVersions) = 1
    /\ Len(rot.reEncryptedVersions) = 5

\* C4: the only request of a rotation that modifies the server is rotateKey,
\* issued once and last; until a rotation has committed, and for ever when
\* it failed or was cancelled, the keys, envelopes, bundles and versions on
\* the server are those of before the command.
C4_StagedRotation ==
    (rot.pc # "idle" /\ inv.pc = "idle") =>
        /\ \A i \in 1..Len(requests) :
              requests[i].op \in ModifyingOps =>
                 /\ requests[i].op = "rotateKey"
                 /\ i = Len(requests)
                 /\ rot.pc = "done"
                 /\ rot.at = "commit"
        /\ rot.outcome # "rotated" => srv = rot.before

\* everything was staged, and the command was interrupted before rotateKey
C4_Witness ==
    /\ rot.pc = "done"
    /\ rot.outcome = "cancelled"
    /\ rot.at = "commit"
    /\ Len(rot.reEncryptedSecrets) = 2
    /\ srv = rot.before

\* C5: rotateKey is called only when the current bundle of every environment
\* that has one decrypted under the old key and its re-encryption under the
\* new key is in the payload; when a current bundle does not decrypt the
\* rotation ends in failure without a rotateKey call.
C5_CommitNeedsEveryBundle ==
    (rot.pc # "idle" /\ inv.pc = "idle") =>
        /\ \A i \in RotateKeyCalls :
              \A e \in BundleEnvs(rot.before) :
                 /\ OpensUnder(rot.before.secrets[e], rot.currentProjectKey)
                 /\ \E j \in EntriesFor(requests[i].body.reEncryptedSecrets,
                                        "environmentId", EnvId(e)) :
                       LET new == requests[i].body.reEncryptedSecrets[j]
                       IN  /\ OpensUnder(new, rot.newProjectKey)
                           /\ PlainOf(new, rot.newProjectKey) =
                                 PlainOf(rot.before.secrets[e], rot.currentProjectKey)
        /\ (/\ rot.currentProjectKey # 0
            /\ BadBundles(rot.before, rot.currentProjectKey) # {})
           => /\ rot.pc \notin {"members", "commit"}
              /\ rot.outcome # "rotated"
              /\ RotateKeyCalls = {}

\* a current bundle did not decrypt, and the rotation gave up
C5_Witness ==
    /\ rot.pc = "done"
    /\ rot.outcome = "failed"
    /\ rot.error = "decrypt"
    /\ BadBundles(rot.before, rot.currentProjectKey) # {}
    /\ RotateKeyCalls = {}

\* the retained version with the given id
SourceVersion(s, id) == CHOOSE v \in RetainedVersions(s) : v.id = id

\* the place of the version v in the list of its environment
PlaceOf(s, v) ==
    CHOOSE i \in 1..Len(s.versions[EnvOfVersion(s, v)]) :
        s.versions[EnvOfVersion(s, v)][i] = v

\* entry is what decrypting item under the old key and encrypting the
\* result under the new key gives, both having succeeded
FromBothSteps(entry, item) ==
    /\ OpensUnder(item, rot.currentProjectKey)
    /\ OpensUnder(entry, rot.newProjectKey)
    /\ PlainOf(entry, rot.newProjectKey) = PlainOf(item, rot.currentProjectKey)

\* C13: as long as generateProjectKey has not returned nothing is staged
\* and no envelope is made, and the new key exists only once the old one
\* was unwrapped; every staged bundle and every staged version is the
\* encryption under the new key of what its source item decrypted to under
\* the old key, both steps having succeeded for that item.
C13_StagedOnlyAfterBothSteps ==
    /\ rot.newProjectKey = 0 =>
          /\ rot.reEncryptedSecrets = <<>>
          /\ rot.reEncryptedVersions = <<>>
          /\ DOMAIN rot.newEncryptedProjectKeys = {}
    /\ rot.newProjectKey # 0 => rot.currentProjectKey # 0
    /\ \A i \in 1..Len(rot.reEncryptedSecrets) :
          \E e \in BundleEnvs(rot.before) :
             /\ EnvId(e) = rot.reEncryptedSecrets[i].environmentId
             /\ FromBothSteps(rot.reEncryptedSecrets[i], rot.before.secrets[e])
    /\ \A i \in 1..Len(rot.reEncryptedVersions) :
          \E v \in RetainedVersions(rot.before) :
             /\ v.id = rot.reEncryptedVersions[i].id
             /\ FromBothSteps(rot.reEncryptedVersions[i], v)

\* everything is staged, one version of the history did not decrypt
C13_Witness ==
    /\ rot.pc = "commit"
    /\ Len(rot.reEncryptedSecrets) = 2
    /\ Len(rot.reEncryptedVersions) = 5
    /\ Len(rot.skippedVersions) = 1
    /\ DOMAIN rot.newEncryptedProjectKeys # {}

\* C14: every staged version carries the id of exactly one retained
\* version, no id is staged twice, the staged ciphertext decrypts under the
\* new key to the plaintext of the version with that id, and the staged
\* versions of one environment are in the order of that environment's list.
C14_VersionsKeepIdAndOrder ==
    LET q == rot.reEncryptedVersions
    IN  /\ \A i \in 1..Len(q) :
              /\ Cardinality({v \in RetainedVersions(rot.before) : v.id = q[i].id}) = 1
              /\ PlainOf(q[i], rot.newProjectKey) =
                    PlainOf(SourceVersion(rot.before, q[i].id), rot.currentProjectKey)
        /\ \A i, j \in 1..Len(q) :
              /\ q[i].id = q[j].id => i = j
              /\ (/\ i < j
                  /\ EnvOfVersion(rot.before, SourceVersion(rot.before, q[i].id)) =
                        EnvOfVersion(rot.before, SourceVersion(rot.before, q[j].id)))
                 => PlaceOf(rot.before, SourceVersion(rot.before, q[i].id)) <
                       PlaceOf(rot.before, SourceVersion(rot.before, q[j].id))

\* two environments with three versions each, one of them skipped
C14_Witness ==
    /\ rot.pc = "commit"
    /\ Len(rot.reEncryptedVersions) = 5
    /\ Len(rot.skippedVersions) = 1
    /\ \E e \in EnvNames : Len(rot.before.versions[e]) = 3


\* C10: in a rotation the members without a public key get no envelope and
\* are reported, every other member gets an envelope of the new key, and
\* the member loop never ends the rotation; no invitation is ever sent for
\* a user without a public key.
C10_EnvelopeScoping ==
    /\ (rot.pc = "commit" \/ (rot.pc = "done" /\ rot.at = "commit")) =>
          /\ DOMAIN rot.newEncryptedProjectKeys =
                MembersOf(rot.before) \ KeylessMembers(rot.before)
          /\ \A m \in DOMAIN rot.newEncryptedProjectKeys :
                decryptMessage(rot.newEncryptedProjectKeys[m],
                               UserKeyPair(m).privateKey) = Ok(rot.newProjectKey)
          /\ {rot.skippedMembers[i] : i \in 1..Len(rot.skippedMembers)} =
                KeylessMembers(rot.before)
          /\ Len(rot.skippedMembers) = Cardinality(KeylessMembers(rot.before))
          /\ \A i \in RotateKeyCalls :
                requests[i].body.newEncryptedProjectKeys = rot.newEncryptedProjectKeys
    /\ (rot.pc = "done" /\ rot.at = "members" /\ rot.outcome = "failed") =>
          rot.error = "request"
    /\ \A i \in 1..Len(requests) :
          requests[i].op = "inviteMember" =>
             /\ srv.users[requests[i].body.email] # NoPublicKey
             /\ requests[i].body.encryptedProjectKey.recipient =
                   srv.users[requests[i].body.email]
    /\ \A x \in srv.invitations : srv.users[x.email] # NoPublicKey
    /\ (inv.pc = "done" /\ srv.users[inv.email] = NoPublicKey) =>
          inv.outcome # "invited"

\* a rotation that skipped a member went through, and the invitation of
\* that member was refused
C10_Witness ==
    /\ rot.pc = "done"
    /\ rot.outcome = "rotated"
    /\ KeylessMembers(rot.before) # {}
    /\ DOMAIN rot.newEncryptedProjectKeys # {}
    /\ inv.pc = "done"
    /\ inv.outcome = "no public key"
    /\ inv.email \in KeylessMembers(rot.before)

\* C20: once a push and a rotation of the project have both finished, every
\* current bundle decrypts under the project key that each member's stored
\* envelope unwraps to.
C20_BundlesOpenAfterPushAndRotation ==
    (/\ push.pc = "done" /\ push.outcome = "pushed"
     /\ rot.pc = "done" /\ rot.outcome = "rotated")
    => \A e \in BundleEnvs(srv) : \A m \in MembersOf(srv) :
          LET key == decryptMessage(srv.keys[m], UserKeyPair(m).privateKey)
          IN  key.ok /\ OpensUnder(srv.secrets[e], key.value)

\* C21: when two members have pushed to a project that had no key at the
\* time each of them asked for it, the envelopes and bundles they uploaded
\* are under one project key: the two commands used the same key, both
\* members' stored envelopes unwrap to it, and every current bundle opens
\* under it.
C21_OneKeyEstablished ==
    (/\ push.pc = "done" /\ push.outcome = "pushed" /\ push.keyless
     /\ peer.pc = "done" /\ peer.outcome = "pushed" /\ peer.keyless)
    => /\ push.projectKey = peer.projectKey
       /\ \A m \in {Me, Peer} :
             decryptMessage(srv.keys[m], UserKeyPair(m).privateKey) = Ok(push.projectKey)
       /\ \A e \in BundleEnvs(srv) : OpensUnder(srv.secrets[e], push.projectKey)

(***************************************************************************)
(* Further claims about login.                                             *)
(***************************************************************************)
\* C22: when the login command has ended and the credential store holds an
\* access token, it holds a private key as well.
C22_TokenComesWithPrivateKey ==
    (loginPc \in {"done", "exit"} /\ isLoggedIn(store)) => HasPrivateKey(store)

\* a step of handleExistingUser's prompt that writes the private key
StoresExistingKey ==
    /\ loginPc = "existingPrompt"
    /\ store'.privateKey # store.privateKey

\* C23: handleExistingUser writes to the credential store only a private
\* key that decryptPrivateKey returned for a passphrase of the length
\* entered, and it is the key the vault protects; when the user declined to
\* retry, the credential store holds neither token nor private key.
C23_ExistingUserLogin ==
    /\ [][StoresExistingKey =>
            /\ \E p \in Passphrases :
                  /\ Len(p) = kdfLen'
                  /\ decryptPrivateKey(user.encryptedPrivateKey, p, user.salt, user.iv)
                        = Ok(store'.privateKey)
            /\ store'.privateKey = vaultKey
            /\ loginPc' = "done"]_vars
    /\ [](loginPc = "exit" => (~isLoggedIn(store) /\ ~HasPrivateKey(store)))

\* the user gave up after a wrong master password on a new device
C23_Witness ==
    /\ loginPc = "exit"
    /\ kdfLen # 0
    /\ srvVault.encryptedPrivateKey # <<>>
    /\ store = EmptyStore

\* the session was restored
C23_WitnessRestored ==
    /\ loginPc = "done"
    /\ kdfLen # 0
    /\ logins = 2
    /\ store.privateKey = vaultKey
    /\ vaultKey # <<>>

\* C24: the poll loop makes at most maxAttempts + 1 pollAuth calls and
\* counts at most maxAttempts authorization_pending answers; while it runs
\* no access token is stored; when it ends without a token response the
\* command ends with no access token stored; an access token gets stored
\* only in a step of the loop whose pollAuth call succeeded.
C24_PollLoop ==
    /\ [](/\ attempts <= maxAttempts
          /\ Cardinality(CallsOf("pollAuth")) <= maxAttempts + 1
          /\ loginPc \in {"initiate", "poll"} => ~isLoggedIn(store))
    /\ [][(loginPc = "poll" /\ loginPc' = "done") => ~isLoggedIn(store')]_vars
    /\ [][(~isLoggedIn(store) /\ isLoggedIn(store')) =>
             /\ loginPc = "poll"
             /\ attempts < maxAttempts
             /\ requests' = Append(requests, Call("pollAuth", [deviceCode |-> 1]))
             /\ loginPc' \in {"existingPrompt", "newPrompt"}]_vars

\* the loop ran out after maxAttempts authorization_pending answers
C24_Witness ==
    /\ loginPc = "done"
    /\ attempts = maxAttempts
    /\ Cardinality(CallsOf("pollAuth")) = maxAttempts
    /\ ~isLoggedIn(store)

(***************************************************************************)
(* Further claims about pull.                                              *)
(***************************************************************************)
\* the project key of the run unwrapped, or came with the service token
Unwrapped ==
    \/ pull.serviceToken
    \/ /\ HasPrivateKey(store)
       /\ decryptMessage(srv.keys[Me], store.privateKey).ok

\* C25: when pull wrote .env, the project key was unwrapped (or came with
\* the service token), what it wrote is the authenticated decryption of the
\* ciphertext received, and a digest received is the SHA-256 of that
\* ciphertext; a pull that failed (download, credentials, unwrap,
\* decryption or digest check) changed neither .env nor dotveil.json, and a
\* pull that received a digest that does not match never wrote .env.
C25_EnvWrittenLast ==
    /\ pull.wroteEnv =>
          /\ pull.outcome = "pulled"
          /\ Unwrapped
          /\ pull.decrypted
          /\ dotenv = [exists |-> TRUE, content |-> pull.remoteEnvContent]
          /\ \E projectKey \in {EstablishedKey(srv), WrongKey} :
                decryptEnvFile(pull.received.encryptedData, projectKey,
                               pull.received.iv) = Ok(dotenv.content)
          /\ pull.received.sha256 # <<>> =>
                pull.received.sha256 = Sha256(pull.received.encryptedData)
    /\ (pull.pc = "done" /\ pull.outcome = "failed") =>
          /\ ~pull.wroteEnv
          /\ ~pull.wroteState
          /\ dotenv = pull.localEnv
    /\ DigestMismatch => ~pull.wroteEnv

\* a pull that replaced a .env with what it had verified and decrypted
C25_Witness ==
    /\ pull.pc = "done"
    /\ pull.wroteEnv
    /\ pull.localEnv.exists
    /\ pull.received.sha256 # <<>>
    /\ dotenv.content # pull.localEnv.content

\* the digest check stopped a pull after the decryption had succeeded
C25_WitnessDigest ==
    /\ pull.pc = "done"
    /\ pull.error = "integrity"
    /\ pull.decrypted
    /\ pull.localEnv.exists
    /\ dotenv = pull.localEnv

\* C26: a pull that found a .env whose content differs from the decrypted
\* remote content has overwritten it only with --force, with a service
\* token or with the user's yes to the prompt.
C26_OverwriteGuard ==
    (/\ pull.pc = "done"
     /\ pull.localEnv.exists
     /\ pull.decrypted
     /\ pull.localEnv.content # pull.remoteEnvContent
     /\ pull.wroteEnv)
    => (pull.force \/ pull.serviceToken \/ pull.confirmed)

\* C27: the value pull stored in state[environment] of dotveil.json is the
\* SHA-256 of the encryptedData it downloaded.
C27_RecordedDigestVerified ==
    pull.wroteState =>
        config.state[pull.environment] = Sha256(pull.received.encryptedData)

(***************************************************************************)
(* A claim about the keychain shared by two processes.                     *)
(***************************************************************************)
\* C28: what getPrivateKey returned while another process was storing keys
\* is null or one of the keys given to storePrivateKey.
C28_NoTornPrivateKey ==
    cred.reader.pc = "done" =>
        \/ cred.reader.result.null
        \/ cred.reader.result.value \in cred.writer.passed

(***************************************************************************)
(* A claim about expandSecrets.                                            *)
(***************************************************************************)
\* the names referred to as ${NAME} in value
References(value) ==
    {SubSeq(value, i + 2, MatchEnd(value, i) - 1) :
        i \in {j \in 1..Len(value) : MatchEnd(value, j) # 0}}

\* the variables of the map that the variable named varName refers to,
\* through at most n references
RECURSIVE RefersTo(_, _, _)
RefersTo(secrets, varName, n) ==
    IF n = 0 \/ ~Defined(secrets, varName) THEN {}
    ELSE LET direct == {r \in References(Lookup(secrets, varName)) :
                           Defined(secrets, r)}
         IN  direct \cup UNION {RefersTo(secrets, r, n - 1) : r \in direct}

\* no variable of the map refers to itself, directly or through others
CycleFree(secrets) ==
    \A k \in 1..Len(secrets) :
        secrets[k].key \notin RefersTo(secrets, secrets[k].key, Len(secrets))

\* C29: the result of expandSecrets for a map without cycle has the keys of
\* the map and no value with a reference to a variable of the map.
C29_FullExpansion ==
    (expand.pc = "done" /\ CycleFree(expand.secrets)) =>
        /\ Len(expand.expanded) = Len(expand.secrets)
        /\ \A k \in 1..Len(expand.expanded) :
              /\ expand.expanded[k].key = expand.secrets[k].key
              /\ \A r \in References(expand.expanded[k].value) :
                    ~Defined(expand.secrets, r)

====
